---- MODULE Spec2Model ----
(***************************************************************************)
(* Model of the MCP protocol router (servers/kubernetes/server.go), the    *)
(* envelope helpers (pkg/mcp) and the natural-language processor           *)
(* (pkg/nlp/processor.go) of kubectl-ai-replica.                           *)
(*                                                                         *)
(* Go strings are modelled as Text: a sequence of tokens, where a token is *)
(* either a run of ordinary characters or one JSON-significant character   *)
(* (the double quote or the backslash).  fmt.Sprintf("%s") is therefore    *)
(* concatenation, and the JSON encoder can tell a body that needs escaping *)
(* from one that does not.                                                 *)
(***************************************************************************)
EXTENDS Integers, Sequences, FiniteSets, TLC

VARIABLES
    req,        \* the HTTP request last handed to handleMCP
    resp,       \* what the HTTP client got back for it
    calls,      \* backend (clientset) calls issued while handling req
    handler,    \* the handler handleMessage dispatched req to
    outcome,    \* what handleMessage returned for req: a message, an error, a panic
    connState,  \* history variable: has an initialization envelope been returned
    provider,   \* Processor.llmProvider: the vendor adapter NewProvider built
    tools,      \* Processor.tools
    history,    \* Processor.history
    log,        \* history variable: every turn appended since the last clear
    lastQuery,  \* the llm.Query ProcessQuery last handed to the provider
    lastResp,   \* the outcome of the last ProcessQuery or GenerateResponse
    vendor,     \* history variable: the vendor's reply behind lastResp
    lastCmd,    \* the outcome of the last TranslateToolCallToCommand
    pc,         \* where each goroutine stands in ProcessQuery
    frame,      \* the locals of each goroutine's ProcessQuery call
    heap,       \* the backing arrays of []llm.Message slices
    sess,       \* the slice header held in Processor.history
    snap,       \* a slice header handed out by the processor, and what it showed
    memo,       \* history variable: a tool call translated earlier, and its result
    nl,         \* the demo's natural-language processor: the query and its command
    wire,       \* an envelope built by NewMessage, its JSON and what decodes from it
    client,     \* the MCP client: the operation run, what it sent and what it returned
    cli,        \* the CLI application: its config pointer, the commands' and the objects
    attempt     \* one provider call: the vendor requests issued and how it ended

routerVars == <<req, resp, calls, handler, outcome, connState>>
procVars == <<provider, tools, history, log, lastQuery, lastResp, vendor, lastCmd>>
edgeVars == <<nl, wire, client, cli, attempt>>
auxVars == <<pc, frame, heap, sess, snap, memo, edgeVars>>
vars == <<req, resp, calls, handler, outcome, connState,
          provider, tools, history, log, lastQuery, lastResp, vendor, lastCmd,
          pc, frame, heap, sess, snap, memo, nl, wire, client, cli, attempt>>

-----------------------------------------------------------------------------
(* Text *)

QUOTE == "\""
BACKSLASH == "\\"

\* a Go string literal without JSON-significant characters
T(s) == <<s>>

EmptyText == <<>>

\* the part of a text after its first n tokens
Drop(s, n) == SubSeq(s, n + 1, Len(s))

-----------------------------------------------------------------------------
(* pkg/mcp *)

ProtocolVersion == T("2024-11-05")

MessageTypeInitialize == T("initialize")
MessageTypeInitialization == T("initialization")
MessageTypePing == T("ping")
MessageTypePong == T("pong")
MessageTypeListResources == T("listResources")
MessageTypeReadResource == T("readResource")
MessageTypeListTools == T("listTools")
MessageTypeCallTool == T("callTool")
MessageTypeError == T("error")

MessageTypes ==
    { MessageTypeInitialize, MessageTypeInitialization, MessageTypePing,
      MessageTypePong, MessageTypeListResources, MessageTypeReadResource,
      MessageTypeListTools, MessageTypeCallTool, MessageTypeError }

\* JSON values as encoding/json sees them; m holds the members of an object
EmptyMap == [x \in {} |-> 0]
JNull == [k |-> "null", s |-> EmptyText, n |-> 0, m |-> EmptyMap]
JStr(t) == [k |-> "str", s |-> t, n |-> 0, m |-> EmptyMap]
JNum(i) == [k |-> "num", s |-> EmptyText, n |-> i, m |-> EmptyMap]
JObj(f) == [k |-> "obj", s |-> EmptyText, n |-> 0, m |-> f]
JBool(b) == [k |-> "bool", s |-> EmptyText, n |-> IF b THEN 1 ELSE 0, m |-> EmptyMap]

\* Message.Data of a request: nil (no "data" member) or a JSON value
NilData == [k |-> "nil", s |-> EmptyText, n |-> 0, m |-> EmptyMap]

\* Message.Data of a response: the marshalled payload, by payload type;
\* "raw" is a json.RawMessage built by hand, whose bytes are in text
NoPayload == [k |-> "nil", text |-> EmptyText, list |-> <<>>]
Payload(kind, text, list) == [k |-> kind, text |-> text, list |-> list]

Message(type, id, data) == [Type |-> type, ID |-> id, Data |-> data]

\* results of functions returning (value, error); a panic unwinds the caller
Ok(v) == [k |-> "ok", v |-> v, err |-> EmptyText]
Err(e) == [k |-> "err", v |-> NoPayload, err |-> e]
Panic == [k |-> "panic", v |-> NoPayload, err |-> EmptyText]

\* NewMessage: nil data stays nil, anything else is marshalled
NewMessage(msgType, id, data) == Ok(Message(msgType, id, data))

\* json decoding of one member of an object into a Go string field
DecodeString(obj, key) ==
    IF key \notin DOMAIN obj THEN Ok(EmptyText)
    ELSE IF obj[key].k = "str" THEN Ok(obj[key].s)
    ELSE IF obj[key].k = "null" THEN Ok(EmptyText)
    ELSE Err(T("json: cannot unmarshal value into Go struct field of type string"))

\* json decoding of one member of an object into a map[string]interface{}
DecodeMap(obj, key) ==
    IF key \notin DOMAIN obj THEN Ok(EmptyMap)
    ELSE IF obj[key].k = "obj" THEN Ok(obj[key].m)
    ELSE IF obj[key].k = "null" THEN Ok(EmptyMap)
    ELSE Err(T("json: cannot unmarshal value into Go struct field of type map"))

\* Message.UnmarshalData into a struct: nil data and JSON null leave the
\* struct zero, an object fills it, any other JSON value is an error
UnmarshalData(data) ==
    IF data.k \in {"nil", "null"} THEN Ok(EmptyMap)
    ELSE IF data.k = "obj" THEN Ok(data.m)
    ELSE Err(T("json: cannot unmarshal value into Go value of type struct"))


\* the scanner json.Encoder runs over the bytes between the quotes of a JSON
\* string: a bare quote ends the string early, a backslash must be followed
\* by a character it can escape (of the model's tokens: quote or backslash)
RECURSIVE ValidStringBody(_)
ValidStringBody(s) ==
    IF s = <<>> THEN TRUE
    ELSE IF Head(s) = QUOTE THEN FALSE
    ELSE IF Head(s) = BACKSLASH
         THEN /\ Len(s) >= 2
              /\ s[2] \in {QUOTE, BACKSLASH}
              /\ ValidStringBody(Drop(s, 2))
    ELSE ValidStringBody(Tail(s))

-----------------------------------------------------------------------------
(* servers/kubernetes/server.go *)

\* the two literal halves of the format string of handleMCP's error payload,
\* {"type":"error","message":"%s"}
ErrorDataOpen == "{\"type\":\"error\",\"message\":\""
ErrorDataClose == "\"}"

\* fmt.Sprintf(`{"type":"error","message":"%s"}`, err.Error())
ErrorData(e) == <<ErrorDataOpen>> \o e \o <<ErrorDataClose>>

\* whether hand-built raw data is the JSON text of an object, which is what
\* json.Encoder checks before it writes a json.RawMessage
ValidRaw(raw) ==
    /\ Len(raw) >= 2
    /\ raw[1] = ErrorDataOpen
    /\ raw[Len(raw)] = ErrorDataClose
    /\ ValidStringBody(SubSeq(raw, 2, Len(raw) - 1))

\* outcomes of one call on the Kubernetes clientset
BOk == [k |-> "ok", err |-> EmptyText]
BErr(e) == [k |-> "err", err |-> e]

\* what a handler hands back: a (value, error) result or a panic, together
\* with the clientset calls it issued
R(res, cs) == [k |-> res.k, v |-> res.v, err |-> res.err, calls |-> cs]

Itoa(i) == T(ToString(i))

getPods(be) ==
    IF be.k = "err" THEN R(Err(be.err), <<"Pods.List">>)
    ELSE R(Ok(T("pods")), <<"Pods.List">>)

getServices(be) ==
    IF be.k = "err" THEN R(Err(be.err), <<"Services.List">>)
    ELSE R(Ok(T("services")), <<"Services.List">>)

getDeployments(be) ==
    IF be.k = "err" THEN R(Err(be.err), <<"Deployments.List">>)
    ELSE R(Ok(T("deployments")), <<"Deployments.List">>)

\* every node the cluster lists is taken to report at least one condition,
\* as the kubelet does, so that Status.Conditions[len-1] is in range
getNodes(be) ==
    IF be.k = "err" THEN R(Err(be.err), <<"Nodes.List">>)
    ELSE R(Ok(T("nodes")), <<"Nodes.List">>)

\* v, ok := args[key].(string) and args[key].(float64)
IsString(args, key) == key \in DOMAIN args /\ args[key].k = "str"
IsFloat(args, key) == key \in DOMAIN args /\ args[key].k = "num"

getPodsTool(args, be) ==
    LET namespace == IF IsString(args, "namespace")
                     THEN args["namespace"].s ELSE EmptyText
    IN  IF be.k = "err" THEN R(Err(be.err), <<"Pods.List">>)
        ELSE R(Ok(Payload("toolResult", T("Found pods in ") \o namespace, <<>>)),
               <<"Pods.List">>)

createDeploymentTool(args, be) ==
    IF ~IsString(args, "name") \/ ~IsString(args, "namespace")
       \/ ~IsString(args, "image")
    THEN R(Panic, <<>>)
    ELSE
    LET name == args["name"].s
        namespace == args["namespace"].s
        replicas == IF IsFloat(args, "replicas") THEN args["replicas"].n ELSE 1
    IN  IF be.k = "err" THEN R(Err(be.err), <<"Deployments.Create">>)
        ELSE R(Ok(Payload("toolResult",
                   T("Successfully created deployment '") \o name
                   \o T("' in namespace '") \o namespace \o T("' with ")
                   \o Itoa(replicas) \o T(" replicas"), <<>>)),
               <<"Deployments.Create">>)

\* a scale that issues UpdateScale a second time when the first one failed
scaleDeploymentToolRetry(args, be1, be2) ==
    IF ~IsString(args, "name") \/ ~IsString(args, "namespace")
       \/ ~IsFloat(args, "replicas")
    THEN R(Panic, <<>>)
    ELSE IF be1.k = "err" THEN R(Err(be1.err), <<"Deployments.GetScale">>)
    ELSE IF be2.k = "err"
    THEN R(Err(be2.err), <<"Deployments.GetScale", "Deployments.UpdateScale",
                           "Deployments.UpdateScale">>)
    ELSE R(Ok(Payload("toolResult", T("Successfully scaled deployment"), <<>>)),
           <<"Deployments.GetScale", "Deployments.UpdateScale">>)

scaleDeploymentTool(args, be1, be2) ==
    IF ~IsString(args, "name") \/ ~IsString(args, "namespace")
       \/ ~IsFloat(args, "replicas")
    THEN R(Panic, <<>>)
    ELSE
    LET name == args["name"].s
        namespace == args["namespace"].s
        replicas == args["replicas"].n
    IN  IF be1.k = "err" THEN R(Err(be1.err), <<"Deployments.GetScale">>)
        ELSE IF be2.k = "err"
        THEN R(Err(be2.err), <<"Deployments.GetScale", "Deployments.UpdateScale">>)
        ELSE R(Ok(Payload("toolResult",
                   T("Successfully scaled deployment '") \o name
                   \o T("' in namespace '") \o namespace \o T("' to ")
                   \o Itoa(replicas) \o T(" replicas"), <<>>)),
               <<"Deployments.GetScale", "Deployments.UpdateScale">>)

deletePodTool(args, be) ==
    IF ~IsString(args, "name") \/ ~IsString(args, "namespace")
    THEN R(Panic, <<>>)
    ELSE
    LET name == args["name"].s
        namespace == args["namespace"].s
    IN  IF be.k = "err" THEN R(Err(be.err), <<"Pods.Delete">>)
        ELSE R(Ok(Payload("toolResult",
                   T("Successfully deleted pod '") \o name
                   \o T("' from namespace '") \o namespace \o T("'"), <<>>)),
               <<"Pods.Delete">>)

-----------------------------------------------------------------------------
(* the handlers; each returns R(result, calls), the result holding the      *)
(* response envelope                                                        *)

\* the request's protocolVersion is decoded and never looked at
handleInitialize(msg) ==
    LET d == UnmarshalData(msg.Data)
        pv == IF d.k = "ok" THEN DecodeString(d.v, "protocolVersion") ELSE d
    IN  IF d.k = "err" \/ pv.k = "err"
        THEN R(Err(T("failed to unmarshal initialize request: ")
                   \o (IF d.k = "err" THEN d.err ELSE pv.err)), <<>>)
        ELSE R(NewMessage(MessageTypeInitialization, msg.ID,
                          Payload("initialization", ProtocolVersion, <<>>)), <<>>)

ResourceURIs ==
    << T("kubernetes://pods"), T("kubernetes://services"),
       T("kubernetes://deployments"), T("kubernetes://nodes") >>

handleListResources(msg) ==
    R(NewMessage(T("listResources"), msg.ID,
                 Payload("resources", EmptyText, ResourceURIs)), <<>>)

handleReadResource(msg, be) ==
    LET d == UnmarshalData(msg.Data)
        u == IF d.k = "ok" THEN DecodeString(d.v, "uri") ELSE d
        uri == u.v
        content ==
            IF uri = T("kubernetes://pods") THEN getPods(be)
            ELSE IF uri = T("kubernetes://services") THEN getServices(be)
            ELSE IF uri = T("kubernetes://deployments") THEN getDeployments(be)
            ELSE getNodes(be)
    IN  IF d.k = "err" \/ u.k = "err"
        THEN R(Err(T("failed to unmarshal read resource request: ")
                   \o (IF d.k = "err" THEN d.err ELSE u.err)), <<>>)
        ELSE IF uri \notin { ResourceURIs[i] : i \in DOMAIN ResourceURIs }
        THEN R(Err(T("unknown resource URI: ") \o uri), <<>>)
        ELSE IF content.k = "panic" THEN content
        ELSE IF content.k = "err"
        THEN R(Err(T("failed to get resource ") \o uri \o T(": ") \o content.err),
               content.calls)
        ELSE R(NewMessage(T("readResource"), msg.ID,
                          Payload("resource", uri, <<content.v>>)), content.calls)

ServerToolNames ==
    << T("get_pods"), T("create_deployment"), T("scale_deployment"),
       T("delete_pod") >>

handleListTools(msg) ==
    R(NewMessage(T("listTools"), msg.ID,
                 Payload("tools", EmptyText, ServerToolNames)), <<>>)

handleCallTool(msg, be1, be2) ==
    LET d == UnmarshalData(msg.Data)
        nm == IF d.k = "ok" THEN DecodeString(d.v, "name") ELSE d
        ar == IF d.k = "ok" THEN DecodeMap(d.v, "arguments") ELSE d
        result ==
            IF nm.v = T("get_pods") THEN getPodsTool(ar.v, be1)
            ELSE IF nm.v = T("create_deployment") THEN createDeploymentTool(ar.v, be1)
            ELSE IF nm.v = T("scale_deployment") THEN scaleDeploymentTool(ar.v, be1, be2)
            ELSE deletePodTool(ar.v, be1)
    IN  IF d.k = "err" \/ nm.k = "err" \/ ar.k = "err"
        THEN R(Err(T("failed to unmarshal tool call request: ")
                   \o (IF d.k = "err" THEN d.err
                       ELSE IF nm.k = "err" THEN nm.err ELSE ar.err)), <<>>)
        ELSE IF nm.v \notin { ServerToolNames[i] : i \in DOMAIN ServerToolNames }
        THEN R(Err(T("unknown tool: ") \o nm.v), <<>>)
        ELSE IF result.k = "panic" THEN result
        ELSE IF result.k = "err"
        THEN R(Err(T("tool execution failed: ") \o result.err), result.calls)
        ELSE R(NewMessage(T("callTool"), msg.ID, result.v), result.calls)

handlePing(msg) == R(NewMessage(MessageTypePong, msg.ID, NoPayload), <<>>)

\* the switch without its ping case
DispatchNoPing(type) ==
    IF type = MessageTypeInitialize THEN "handleInitialize"
    ELSE IF type = MessageTypeListResources THEN "handleListResources"
    ELSE IF type = MessageTypeReadResource THEN "handleReadResource"
    ELSE IF type = MessageTypeListTools THEN "handleListTools"
    ELSE IF type = MessageTypeCallTool THEN "handleCallTool"
    ELSE "none"

\* the case handleMessage's switch selects
Dispatch(type) ==
    IF type = MessageTypeInitialize THEN "handleInitialize"
    ELSE IF type = MessageTypeListResources THEN "handleListResources"
    ELSE IF type = MessageTypeReadResource THEN "handleReadResource"
    ELSE IF type = MessageTypeListTools THEN "handleListTools"
    ELSE IF type = MessageTypeCallTool THEN "handleCallTool"
    ELSE IF type = MessageTypePing THEN "handlePing"
    ELSE "none"

handleMessage(msg, be1, be2) ==
    LET h == Dispatch(msg.Type)
    IN  IF h = "handleInitialize" THEN handleInitialize(msg)
        ELSE IF h = "handleListResources" THEN handleListResources(msg)
        ELSE IF h = "handleReadResource" THEN handleReadResource(msg, be1)
        ELSE IF h = "handleListTools" THEN handleListTools(msg)
        ELSE IF h = "handleCallTool" THEN handleCallTool(msg, be1, be2)
        ELSE IF h = "handlePing" THEN handlePing(msg)
        ELSE R(Err(T("unknown message type: ") \o msg.Type), <<>>)

\* what the HTTP client receives: a status line and a body that is an
\* envelope, an http.Error text, or nothing; a handler panic is recovered by
\* net/http, which drops the connection without writing a response
NoMsg == Message(EmptyText, EmptyText, NoPayload)
HTTPResponse(status, kind, env) == [status |-> status, kind |-> kind, env |-> env]
Aborted == HTTPResponse(0, "aborted", NoMsg)

\* json.NewEncoder(w).Encode(response): hand-built raw data that is not JSON
\* makes Encode fail before anything is written
Encode(env) ==
    IF env.Data.k = "raw" /\ ~ValidRaw(env.Data.text)
    THEN HTTPResponse(200, "empty", NoMsg)
    ELSE HTTPResponse(200, "envelope", env)

NoOutcome == [k |-> "none", err |-> EmptyText]

\* the envelope handleMCP builds when handleMessage returned an error
ErrorEnvelopeNoID(id, e) ==
    Message(MessageTypeError, EmptyText, Payload("raw", ErrorData(e), <<>>))

ErrorEnvelope(id, e) ==
    Message(MessageTypeError, id, Payload("raw", ErrorData(e), <<>>))

\* handleMCP for request r; the result is the response and the backend calls
handleMCP(r, be1, be2) ==
    IF r.Method # "POST"
    THEN [resp |-> HTTPResponse(405, "text", NoMsg), calls |-> <<>>,
          outcome |-> NoOutcome]
    ELSE IF ~r.decodable
    THEN [resp |-> HTTPResponse(400, "text", NoMsg), calls |-> <<>>,
          outcome |-> NoOutcome]
    ELSE
    LET res == handleMessage(r.msg, be1, be2)
        out == [k |-> res.k, err |-> res.err]
    IN  IF res.k = "panic"
        THEN [resp |-> Aborted, calls |-> res.calls, outcome |-> out]
        ELSE IF res.k = "err"
        THEN [resp |-> Encode(ErrorEnvelope(r.msg.ID, res.err)),
              calls |-> res.calls, outcome |-> out]
        ELSE [resp |-> Encode(res.v), calls |-> res.calls, outcome |-> out]

-----------------------------------------------------------------------------
(* the requests a client can send *)

Request(method, decodable, msg) ==
    [Method |-> method, decodable |-> decodable, msg |-> msg]

ReqIDs == { EmptyText, T("req-1") }

\* the six request types, a response type, the empty type and two made-up
\* types, one of which holds a double quote
ReqTypes ==
    { MessageTypeInitialize, MessageTypeListResources, MessageTypeReadResource,
      MessageTypeListTools, MessageTypeCallTool, MessageTypePing,
      MessageTypePong, EmptyText, T("foo"), <<"fo", QUOTE, "o">> }

Absent == [k |-> "absent", s |-> EmptyText, n |-> 0, m |-> EmptyMap]

\* the object whose members are the keys that c does not map to Absent
MkObj(c) == [x \in { y \in DOMAIN c : c[y].k # "absent" } |-> c[x]]

ArgKeys == { "name", "namespace", "image", "replicas" }

ArgValues(key) ==
    IF key = "name" THEN { Absent, JStr(T("myapp")) }
    ELSE IF key = "namespace" THEN { Absent, JStr(T("prod")) }
    ELSE IF key = "image" THEN { Absent, JStr(T("nginx")) }
    ELSE { Absent, JNum(3), JStr(T("3")) }

\* the argument maps over the given keys
ArgMaps(keys) ==
    { MkObj(c) : c \in { f \in [keys -> UNION { ArgValues(x) : x \in keys }] :
                         \A x \in keys : f[x] \in ArgValues(x) } }

\* the arguments each tool of the server reads
ToolArgKeys(tool) ==
    IF tool = T("get_pods") THEN { "namespace" }
    ELSE IF tool = T("create_deployment") THEN ArgKeys
    ELSE IF tool = T("scale_deployment") THEN { "name", "namespace", "replicas" }
    ELSE { "name", "namespace" }

FullArgs ==
    MkObj([name |-> JStr(T("myapp")), namespace |-> JStr(T("prod")),
           image |-> JStr(T("nginx")), replicas |-> JNum(3)])

CallData(name, arguments) == JObj(MkObj([name |-> name, arguments |-> arguments]))

CallDatas ==
    UNION { { CallData(JStr(ServerToolNames[i]), JObj(a)) :
                a \in ArgMaps(ToolArgKeys(ServerToolNames[i])) } :
            i \in DOMAIN ServerToolNames }
    \cup { CallData(JStr(t), JObj(FullArgs)) :
             t \in { T("kubectl"), <<"rm ", QUOTE, "x", QUOTE>> } }
    \cup { CallData(JStr(T("scale_deployment")), Absent),
           CallData(JStr(T("scale_deployment")), JStr(T("x"))),
           CallData(JNum(1), JObj(FullArgs)) }

InitData(pv) == JObj(MkObj([protocolVersion |-> pv]))

ReadData(uri) == JObj(MkObj([uri |-> uri]))

\* payloads any request may carry
GenericDatas ==
    { NilData, JNull, JStr(T("x")),
      InitData(JStr(ProtocolVersion)), InitData(JStr(T("1999-01-01"))),
      InitData(JNum(1)),
      ReadData(JStr(T("kubernetes://pods"))), ReadData(JStr(T("kubernetes://nodes"))),
      ReadData(JStr(<<"kubernetes://", QUOTE>>)), ReadData(JNum(1)),
      CallData(JStr(T("scale_deployment")), JObj(FullArgs)) }

Messages ==
    { Message(t, i, d) : t \in ReqTypes, i \in ReqIDs, d \in GenericDatas }
    \cup { Message(MessageTypeCallTool, i, d) : i \in ReqIDs, d \in CallDatas }
    \cup { Message(MessageTypeReadResource, i, ReadData(JStr(ResourceURIs[u]))) :
             i \in ReqIDs, u \in DOMAIN ResourceURIs }

Requests ==
    { Request("POST", TRUE, m) : m \in Messages }
    \cup { Request("GET", TRUE, Message(MessageTypePing, T("req-1"), NilData)),
           Request("POST", FALSE, Message(EmptyText, EmptyText, NilData)) }

\* errors of the clientset: a transport error, and an API status error,
\* which quotes the name of the object
BackendOutcomes ==
    { BOk, BErr(T("connection refused")),
      BErr(<<"deployments.apps ", QUOTE, "myapp", QUOTE, " not found">>) }

\* the outcomes of the clientset calls that handling r can reach: none when
\* r issues no call, one when it issues a single call
Outcomes1(r) ==
    IF handleMCP(r, BOk, BOk).calls = <<>> THEN { BOk } ELSE BackendOutcomes

Outcomes2(r) ==
    IF Len(handleMCP(r, BOk, BOk).calls) < 2 THEN { BOk }
    ELSE { BOk, BErr(T("connection refused")) }

-----------------------------------------------------------------------------
(* the router as a state machine: one step serves one HTTP request *)

NoRequest == Request("", FALSE, Message(EmptyText, EmptyText, NilData))

InitRouter ==
    /\ req = NoRequest
    /\ resp = HTTPResponse(0, "none", NoMsg)
    /\ calls = <<>>
    /\ handler = "none"
    /\ outcome = NoOutcome
    /\ connState = "Uninitialized"

\* the connection is Ready once an initialization envelope has come back
NextConnState(old, rsp) ==
    IF rsp.kind = "envelope" /\ rsp.env.Type = MessageTypeInitialization
    THEN "Ready" ELSE old

ServeHTTP ==
    \E r \in Requests :
      \E be1 \in Outcomes1(r), be2 \in Outcomes2(r) :
        LET h == handleMCP(r, be1, be2)
        IN  /\ req' = r
            /\ resp' = h.resp
            /\ calls' = h.calls
            /\ outcome' = h.outcome
            /\ handler' = IF r.Method = "POST" /\ r.decodable
                          THEN Dispatch(r.msg.Type) ELSE "none"
            /\ connState' = NextConnState(connState, h.resp)
            /\ UNCHANGED <<procVars, auxVars>>

-----------------------------------------------------------------------------
(* pkg/nlp/processor.go: the tool-call translator *)

\* results of functions returning (string, error): the string is "" on error
OkS(t) == [k |-> "ok", v |-> t, err |-> EmptyText]
\* an error returned next to the beginning of a command
ErrSPartial(e) == [k |-> "err", v |-> T("kubectl"), err |-> e]
ErrS(e) == [k |-> "err", v |-> EmptyText, err |-> e]

Tool(name) == [Name |-> name]

getDefaultKubernetesTools ==
    << Tool(T("kubectl_get_pods")), Tool(T("kubectl_get_services")),
       Tool(T("kubectl_get_deployments")), Tool(T("kubectl_create_deployment")),
       Tool(T("kubectl_scale_deployment")), Tool(T("kubectl_delete_pod")),
       Tool(T("kubectl_describe_pod")) >>

ToolCall(name, args) == [ToolName |-> name, Arguments |-> args]

\* v, ok := args[key].(bool); ok && v
IsTrue(args, key) == key \in DOMAIN args /\ args[key].k = "bool" /\ args[key].n = 1

\* a flag written for every string namespace, the empty one included
NamespaceFlagAlways(args) ==
    IF IsString(args, "namespace")
    THEN T(" -n ") \o args["namespace"].s
    ELSE EmptyText

\* if namespace, ok := args["namespace"].(string); ok && namespace != ""
NamespaceFlag(args) ==
    IF IsString(args, "namespace") /\ args["namespace"].s # EmptyText
    THEN T(" -n ") \o args["namespace"].s
    ELSE EmptyText

\* the three list translators share one body but for the resource name
translateGet(cmd, args) ==
    IF IsString(args, "namespace") /\ args["namespace"].s # EmptyText
    THEN OkS(cmd \o T(" -n ") \o args["namespace"].s)
    ELSE IF IsTrue(args, "all_namespaces")
    THEN OkS(cmd \o T(" --all-namespaces"))
    ELSE OkS(cmd)

translateGetPods(args) == translateGet(T("kubectl get pods"), args)

translateGetServices(args) == translateGet(T("kubectl get services"), args)

translateGetDeployments(args) == translateGet(T("kubectl get deployments"), args)

translateCreateDeployment(args) ==
    IF ~IsString(args, "name") THEN ErrS(T("deployment name is required"))
    ELSE IF ~IsString(args, "image") THEN ErrS(T("image is required"))
    ELSE OkS(T("kubectl create deployment ") \o args["name"].s
             \o T(" --image=") \o args["image"].s
             \o NamespaceFlag(args)
             \o (IF IsFloat(args, "replicas") /\ args["replicas"].n > 0
                 THEN T(" --replicas=") \o Itoa(args["replicas"].n)
                 ELSE EmptyText))

translateScaleDeployment(args) ==
    IF ~IsString(args, "name") THEN ErrS(T("deployment name is required"))
    ELSE IF ~IsFloat(args, "replicas") THEN ErrS(T("replicas count is required"))
    ELSE OkS(T("kubectl scale deployment ") \o args["name"].s
             \o T(" --replicas=") \o Itoa(args["replicas"].n)
             \o NamespaceFlag(args))

translateDeletePod(args) ==
    IF ~IsString(args, "name") THEN ErrS(T("pod name is required"))
    ELSE OkS(T("kubectl delete pod ") \o args["name"].s \o NamespaceFlag(args))

translateDescribePod(args) ==
    IF ~IsString(args, "name") THEN ErrS(T("pod name is required"))
    ELSE OkS(T("kubectl describe pod ") \o args["name"].s \o NamespaceFlag(args))

\* a translator that looks the name up in the processor's tools
TranslateRegistered(toolCall) ==
    IF \E i \in DOMAIN tools : tools[i].Name = toolCall.ToolName
    THEN OkS(T("kubectl ") \o toolCall.ToolName)
    ELSE ErrS(T("unknown tool: ") \o toolCall.ToolName)

TranslateToolCallToCommand(toolCall) ==
    LET name == toolCall.ToolName
        args == toolCall.Arguments
    IN  IF name = T("kubectl_get_pods") THEN translateGetPods(args)
        ELSE IF name = T("kubectl_get_services") THEN translateGetServices(args)
        ELSE IF name = T("kubectl_get_deployments") THEN translateGetDeployments(args)
        ELSE IF name = T("kubectl_create_deployment") THEN translateCreateDeployment(args)
        ELSE IF name = T("kubectl_scale_deployment") THEN translateScaleDeployment(args)
        ELSE IF name = T("kubectl_delete_pod") THEN translateDeletePod(args)
        ELSE IF name = T("kubectl_describe_pod") THEN translateDescribePod(args)
        ELSE ErrS(T("unknown tool: ") \o name)

-----------------------------------------------------------------------------
(* pkg/llm: the vendor adapters *)

\* text that holds white space holds it as tokens of its own
WS == " "
NL == "\n"

RECURSIVE TrimLeft(_)
TrimLeft(s) ==
    IF s # <<>> /\ Head(s) \in {WS, NL} THEN TrimLeft(Tail(s)) ELSE s

RECURSIVE TrimRight(_)
TrimRight(s) ==
    IF s # <<>> /\ s[Len(s)] \in {WS, NL}
    THEN TrimRight(SubSeq(s, 1, Len(s) - 1)) ELSE s

\* strings.TrimSpace
TrimSpace(s) == TrimRight(TrimLeft(s))

\* strings.Split(content, "\n")
RECURSIVE Split(_)
Split(s) ==
    IF \A i \in DOMAIN s : s[i] # NL THEN <<s>>
    ELSE LET i == CHOOSE j \in DOMAIN s :
                    s[j] = NL /\ \A l \in 1..(j - 1) : s[l] # NL
         IN  <<SubSeq(s, 1, i - 1)>> \o Split(Drop(s, i))

\* what the vendor answered to one chat-completion request: a transport
\* failure, a non-success status, or a body with choices; content and
\* toolCalls are those of the first choice
Reply(kind, choices, content, toolCalls) ==
    [k |-> kind, choices |-> choices, content |-> content, toolCalls |-> toolCalls]

Response(content, toolCalls) ==
    [k |-> "ok", Content |-> content, ToolCalls |-> toolCalls, err |-> EmptyText]
ErrR(e) == [k |-> "err", Content |-> EmptyText, ToolCalls |-> <<>>, err |-> e]
PanicR == [k |-> "panic", Content |-> EmptyText, ToolCalls |-> <<>>, err |-> EmptyText]
NoResponse == [k |-> "none", Content |-> EmptyText, ToolCalls |-> <<>>, err |-> EmptyText]

Providers == { "openai", "gemini", "openrouter" }

\* which call reached the vendor, and what the vendor answered
Vendor(call, reply) == [call |-> call, reply |-> reply]
NoVendor == Vendor("none", Reply("none", 0, EmptyText, <<>>))

OpenAIGenerateResponse(reply) ==
    IF reply.k # "ok" THEN ErrS(T("failed to generate response: ") \o T(reply.k))
    ELSE IF reply.choices = 0 THEN ErrS(T("no response generated"))
    ELSE OkS(reply.content)

\* the content of a Gemini candidate is a list of parts: an empty reply
\* content stands for no part, any other content for parts holding it
GeminiGenerateResponse(reply) ==
    IF reply.k # "ok" THEN ErrS(T("failed to generate response: ") \o T(reply.k))
    ELSE IF reply.choices = 0 THEN ErrS(T("no response generated"))
    ELSE IF reply.content = EmptyText THEN ErrS(T("no content in response"))
    ELSE OkS(T("I understand your request. Let me help you with that."))

\* json.Unmarshal of the vendor's argument string into a map, else {"raw": args}
parseJSONArguments(args) ==
    IF args.k = "obj" THEN args.m
    ELSE IF args.k = "null" THEN EmptyMap
    ELSE MkObj([raw |-> JStr(args.s)])

OpenAIGenerateResponseWithTools(query, reply) ==
    IF reply.k # "ok" THEN ErrR(T("failed to generate response: ") \o T(reply.k))
    ELSE IF reply.choices = 0 THEN ErrR(T("no response generated"))
    ELSE Response(reply.content,
                  [i \in DOMAIN reply.toolCalls |->
                     ToolCall(reply.toolCalls[i].name,
                              parseJSONArguments(reply.toolCalls[i].arguments))])

makeRequest(reply) ==
    IF reply.k = "neterr" THEN ErrS(T("failed to make request: ") \o T(reply.k))
    ELSE IF reply.k = "status" THEN ErrS(T("API request failed with status 500: "))
    ELSE IF reply.choices = 0 THEN ErrS(T("no response from AI model"))
    ELSE IF TrimSpace(reply.content) = EmptyText
    THEN ErrS(T("empty response from AI model"))
    ELSE OkS(TrimSpace(reply.content))

\* one ToolCall named "kubectl" per line that starts with TOOL: or EXECUTE:
RECURSIVE parseLines(_)
parseLines(lines) ==
    IF lines = <<>> THEN <<>>
    ELSE LET line == TrimSpace(Head(lines))
         IN  IF line # <<>> /\ Head(line) \in {"TOOL:", "EXECUTE:"}
             THEN <<ToolCall(T("kubectl"),
                             MkObj([command |-> JStr(TrimSpace(Tail(line)))]))>>
                  \o parseLines(Tail(lines))
             ELSE parseLines(Tail(lines))

parseToolCallsFromResponse(content) == parseLines(Split(content))

OpenRouterGenerateResponse(reply) == makeRequest(reply)

\* Provider.GenerateResponse of the adapter NewProvider built
GenerateResponse(prov, reply) ==
    IF prov = "openai" THEN OpenAIGenerateResponse(reply)
    ELSE IF prov = "gemini" THEN GeminiGenerateResponse(reply)
    ELSE OpenRouterGenerateResponse(reply)

OpenRouterGenerateResponseWithTools(query, reply) ==
    LET c == makeRequest(reply)
    IN  IF c.k = "err" THEN ErrR(c.err)
        ELSE Response(c.v, parseToolCallsFromResponse(c.v))

-----------------------------------------------------------------------------
(* pkg/nlp/processor.go: the processor *)

\* "last 10 messages"
HistoryLimit == 10

Turn(role, content) == [Role |-> role, Content |-> content]

Query(text, tls, hist) == [Text |-> text, Tools |-> tls, History |-> hist]

NoQuery == Query(EmptyText, <<>>, <<>>)

\* a truncation that keeps the head of the history, p.history[:10]
TruncateKeepOldest(h) ==
    IF Len(h) > HistoryLimit THEN SubSeq(h, 1, HistoryLimit) ELSE h

\* a truncation that keeps one turn less than the limit
TruncateOdd(h) ==
    IF Len(h) > HistoryLimit
    THEN SubSeq(h, Len(h) - HistoryLimit + 2, Len(h))
    ELSE h

\* p.history[len(p.history)-10:] when the history is longer than 10
Truncate(h) ==
    IF Len(h) > HistoryLimit
    THEN SubSeq(h, Len(h) - HistoryLimit + 1, Len(h))
    ELSE h

\* a ProcessQuery that appends the user turn before it calls the provider
ProcessQueryAppendFirst(prov, tls, hist, text, reply) ==
    LET llmQuery == Query(text, tls, hist)
        response == OpenRouterGenerateResponseWithTools(llmQuery, reply)
        asked == Append(hist, Turn("user", text))
    IN  IF response.k = "err"
        THEN [query |-> llmQuery, res |-> ErrR(response.err),
              history |-> Truncate(asked), appended |-> <<>>,
              vendor |-> Vendor("generateWithTools", reply)]
        ELSE [query |-> llmQuery, res |-> response,
              history |-> Truncate(Append(asked, Turn("assistant", response.Content))),
              appended |-> << Turn("user", text),
                              Turn("assistant", response.Content) >>,
              vendor |-> Vendor("generateWithTools", reply)]

\* ProcessQuery on processor state (prov, tls, hist): the Query it builds,
\* what it returns and the history it leaves.  Asserting the provider to the
\* interface with GenerateResponseWithTools panics for an adapter without it.
ProcessQuery(prov, tls, hist, text, reply) ==
    LET llmQuery == Query(text, tls, hist)
        response == IF prov = "openai"
                    THEN OpenAIGenerateResponseWithTools(llmQuery, reply)
                    ELSE OpenRouterGenerateResponseWithTools(llmQuery, reply)
    IN  IF prov \notin {"openai", "openrouter"}
        THEN [query |-> llmQuery, res |-> PanicR, history |-> hist,
              appended |-> <<>>, vendor |-> NoVendor]
        ELSE IF response.k = "err"
        THEN [query |-> llmQuery,
              res |-> ErrR(T("failed to process query: ") \o response.err),
              history |-> hist, appended |-> <<>>,
              vendor |-> Vendor("generateWithTools", reply)]
        ELSE LET turns == << Turn("user", text),
                            Turn("assistant", response.Content) >>
             IN  [query |-> llmQuery, res |-> response,
                  history |-> Truncate(hist \o turns), appended |-> turns,
                  vendor |-> Vendor("generateWithTools", reply)]

AddTool(tls, tool) == Append(tls, tool)

ClearHistory(hist) == <<>>

-----------------------------------------------------------------------------
(* inputs of the processor *)

\* query cycles between two clears in the session specification
MaxCycles == 6

\* query cycles in the registry specification
MaxRegistryCycles == 1

\* tools registered on top of the default ones
MaxAdded == 2

QueryTexts == { T("list pods"), T("scale myapp") }

ToolLine == <<"TOOL:", WS, "kubectl get pods">>

\* the vendor fails, answers without choices, or answers with text
SessionReplies(q) ==
    { Reply("neterr", 0, EmptyText, <<>>), Reply("ok", 0, EmptyText, <<>>) }
    \cup { Reply("ok", 1, c, <<>>) : c \in { T("done"), ToolLine } }

ScaleArgs == MkObj([name |-> JStr(T("myapp")), replicas |-> JNum(5)])

\* a vendor with native function calling picks among the functions of the
\* request; its argument string may not be JSON
VendorToolCalls(q) ==
    { <<>> }
    \cup { <<[name |-> q.Tools[Len(q.Tools)].Name, arguments |-> a]>> :
             a \in { JObj(ScaleArgs), JStr(T("{")) } }

RegistryReplies(q) ==
    { Reply("neterr", 0, EmptyText, <<>>), Reply("status", 0, EmptyText, <<>>),
      Reply("ok", 0, EmptyText, <<>>) }
    \cup { Reply("ok", 1, c, <<>>) :
             c \in { T("done"), ToolLine, <<WS>>, EmptyText,
                     <<"ok", NL, WS, "EXECUTE:", "kubectl get nodes", NL>> } }
    \cup { Reply("ok", 1, T("done"), tc) : tc \in VendorToolCalls(q) }

AddableNames == { T("custom_tool"), T("kubectl_get_pods") }

ProcArgValues(key) ==
    IF key = "name" THEN { Absent, JStr(T("myapp")) }
    ELSE IF key = "image" THEN { Absent, JStr(T("nginx")) }
    ELSE IF key = "namespace" THEN { Absent, JStr(EmptyText), JStr(T("prod")) }
    ELSE IF key = "all_namespaces" THEN { Absent, JBool(TRUE) }
    ELSE { Absent, JNum(5), JNum(-1), JStr(T("5")) }

ProcArgMaps(keys) ==
    { MkObj(c) : c \in { f \in [keys -> UNION { ProcArgValues(x) : x \in keys }] :
                         \A x \in keys : f[x] \in ProcArgValues(x) } }

ToolCalls ==
    { ToolCall(n, a) :
        n \in { T("kubectl_get_pods"), T("kubectl_get_services"),
                T("kubectl_get_deployments") },
        a \in ProcArgMaps({"namespace", "all_namespaces"}) }
    \cup { ToolCall(T("kubectl_create_deployment"), a) :
             a \in ProcArgMaps({"name", "image", "namespace", "replicas"}) }
    \cup { ToolCall(T("kubectl_scale_deployment"), a) :
             a \in ProcArgMaps({"name", "replicas", "namespace"}) }
    \cup { ToolCall(n, a) :
             n \in { T("kubectl_delete_pod"), T("kubectl_describe_pod") },
             a \in ProcArgMaps({"name", "namespace"}) }
    \cup { ToolCall(n, a) :
             n \in { T("custom_tool"), T("kubectl") },
             a \in { EmptyMap, ScaleArgs } }

-----------------------------------------------------------------------------
(* the processor as a state machine *)

NoCmd ==
    [call |-> ToolCall(EmptyText, EmptyMap),
     res |-> [k |-> "none", v |-> EmptyText, err |-> EmptyText]]

InitProcessor ==
    /\ provider \in Providers
    /\ tools = getDefaultKubernetesTools
    /\ history = <<>>
    /\ log = <<>>
    /\ lastQuery = NoQuery
    /\ lastResp = NoResponse
    /\ vendor = NoVendor
    /\ lastCmd = NoCmd

\* a panic that nothing recovers ends the process
Alive == lastResp.k # "panic"

\* one call of ProcessQuery in an interactive session
SessionQuery ==
    /\ Alive
    /\ Len(log) < 2 * MaxCycles
    /\ \E text \in QueryTexts :
         \E reply \in SessionReplies(Query(text, tools, history)) :
           LET r == ProcessQuery(provider, tools, history, text, reply)
           IN  /\ history' = r.history
               /\ lastQuery' = r.query
               /\ lastResp' = r.res
               /\ vendor' = r.vendor
               /\ log' = log \o r.appended
    /\ UNCHANGED <<provider, tools, lastCmd>>
    /\ UNCHANGED <<routerVars, auxVars>>

\* one call of ProcessQuery, with every shape of vendor reply
RegistryQuery ==
    /\ Alive
    /\ Len(log) < 2 * MaxRegistryCycles
    /\ \E text \in QueryTexts :
         \E reply \in RegistryReplies(Query(text, tools, history)) :
           LET r == ProcessQuery(provider, tools, history, text, reply)
           IN  /\ history' = r.history
               /\ lastQuery' = r.query
               /\ lastResp' = r.res
               /\ vendor' = r.vendor
               /\ log' = log \o r.appended
    /\ UNCHANGED <<provider, tools, lastCmd>>
    /\ UNCHANGED <<routerVars, auxVars>>

Clear ==
    /\ Alive
    /\ history' = ClearHistory(history)
    /\ log' = <<>>
    /\ UNCHANGED <<provider, tools, lastQuery, lastResp, vendor, lastCmd>>
    /\ UNCHANGED <<routerVars, auxVars>>

Register ==
    /\ Alive
    /\ Len(tools) < Len(getDefaultKubernetesTools) + MaxAdded
    /\ \E n \in AddableNames : tools' = AddTool(tools, Tool(n))
    /\ UNCHANGED <<provider, history, log, lastQuery, lastResp, vendor, lastCmd>>
    /\ UNCHANGED <<routerVars, auxVars>>

Translate ==
    /\ Alive
    /\ \E tc \in ToolCalls :
         lastCmd' = [call |-> tc, res |-> TranslateToolCallToCommand(tc)]
    /\ UNCHANGED <<provider, tools, history, log, lastQuery, lastResp, vendor>>
    /\ UNCHANGED <<routerVars, auxVars>>

\* what the vendor answers to a plain prompt
GenerateReplies ==
    { Reply("neterr", 0, EmptyText, <<>>), Reply("status", 0, EmptyText, <<>>),
      Reply("ok", 0, EmptyText, <<>>) }
    \cup { Reply("ok", 1, c, <<>>) : c \in { T("done"), <<WS>>, EmptyText } }

\* one call of Provider.GenerateResponse on the processor's provider
Generate ==
    /\ Alive
    /\ \E prompt \in QueryTexts, reply \in GenerateReplies :
         LET r == GenerateResponse(provider, reply)
         IN  /\ lastQuery' = Query(prompt, <<>>, <<>>)
             /\ lastResp' = [k |-> r.k, Content |-> r.v,
                             ToolCalls |-> <<>>, err |-> r.err]
             /\ vendor' = Vendor("generate", reply)
    /\ UNCHANGED <<provider, tools, history, log, lastCmd>>
    /\ UNCHANGED <<routerVars, auxVars>>

-----------------------------------------------------------------------------
(* ProcessQuery and ClearHistory called from several goroutines on one      *)
(* Processor.  The struct has no mutex, so the statements of the calls     *)
(* interleave; an append is a read of p.history followed by a write.       *)

Goroutines == { "g1", "g2" }

\* calls of ProcessQuery and of ClearHistory each goroutine makes
MaxGoQueries == 1
MaxGoClears == 1

NoFrame ==
    [text |-> EmptyText, query |-> NoQuery, content |-> EmptyText,
     tmp |-> <<>>, queries |-> 0, clears |-> 0]

\* what no step of a goroutine touches
goRest == <<provider, tools, lastQuery, lastResp, vendor, lastCmd,
            routerVars, heap, sess, snap, memo, edgeVars>>

InitGoroutines ==
    /\ pc = [g \in Goroutines |-> "idle"]
    /\ frame = [g \in Goroutines |-> NoFrame]

\* each goroutine asks its own question, and the vendor's answer names it
GoText(g) == T("query of " \o g)
Answer(text) == T("answer to: ") \o text
GoReplies(text) ==
    { Reply("neterr", 0, EmptyText, <<>>), Reply("ok", 1, Answer(text), <<>>) }

\* llmQuery := llm.Query{..., History: p.history}
GoBuildQuery(g) ==
    /\ pc[g] = "idle"
    /\ frame[g].queries < MaxGoQueries
    /\ frame' = [frame EXCEPT ![g].text = GoText(g),
                              ![g].query = Query(GoText(g), tools, history),
                              ![g].queries = @ + 1]
    /\ pc' = [pc EXCEPT ![g] = "call"]
    /\ UNCHANGED <<history, log, goRest>>

\* the blocking provider call and the early return on its error
GoGenerate(g) ==
    /\ pc[g] = "call"
    /\ \E reply \in GoReplies(frame[g].text) :
         LET response == OpenAIGenerateResponseWithTools(frame[g].query, reply)
         IN  IF response.k = "err"
             THEN /\ pc' = [pc EXCEPT ![g] = "idle"]
                  /\ UNCHANGED <<frame, goRest>>
             ELSE /\ pc' = [pc EXCEPT ![g] = "readUser"]
                  /\ frame' = [frame EXCEPT ![g].content = response.Content]
    /\ UNCHANGED <<history, log, goRest>>

\* append(p.history, ...) evaluates its operand
GoReadHistory(g) ==
    /\ pc[g] \in { "readUser", "readAssistant" }
    /\ frame' = [frame EXCEPT ![g].tmp = history]
    /\ pc' = [pc EXCEPT ![g] = IF pc[g] = "readUser"
                                THEN "writeUser" ELSE "writeAssistant"]
    /\ UNCHANGED <<history, log, goRest>>

\* p.history = append(...) with the user turn
GoAppendUser(g) ==
    /\ pc[g] = "writeUser"
    /\ history' = Append(frame[g].tmp, Turn("user", frame[g].text))
    /\ pc' = [pc EXCEPT ![g] = "readAssistant"]
    /\ UNCHANGED <<frame, log, goRest>>

\* p.history = append(...) with the assistant turn
GoAppendAssistant(g) ==
    /\ pc[g] = "writeAssistant"
    /\ history' = Append(frame[g].tmp, Turn("assistant", frame[g].content))
    /\ pc' = [pc EXCEPT ![g] = "truncate"]
    /\ UNCHANGED <<frame, log, goRest>>

\* the truncation and the return; log records the pair of the finished call
GoTruncate(g) ==
    /\ pc[g] = "truncate"
    /\ history' = Truncate(history)
    /\ log' = log \o << Turn("user", frame[g].text),
                        Turn("assistant", frame[g].content) >>
    /\ pc' = [pc EXCEPT ![g] = "idle"]
    /\ UNCHANGED <<frame, goRest>>

\* p.history = []llm.Message{}
GoClearHistory(g) ==
    /\ pc[g] = "idle"
    /\ frame[g].clears < MaxGoClears
    /\ history' = ClearHistory(history)
    /\ log' = <<>>
    /\ frame' = [frame EXCEPT ![g].clears = @ + 1]
    /\ UNCHANGED <<pc, goRest>>

-----------------------------------------------------------------------------
(* Processor.history as a Go slice: a header (array, offset, length) over   *)
(* a backing array that other headers may share.  ProcessQuery puts the    *)
(* header itself in Query.History and GetHistory returns it.               *)

\* backing arrays allocated in one run
MaxArrays == 7

\* query cycles in the slice specification
MaxHeapCycles == 6

\* assignments made through handed-out headers in one run
MaxWrites == 1

SliceTexts == { T("list pods") }

ZeroTurn == Turn("", EmptyText)

Slice(arr, off, len) == [arr |-> arr, off |-> off, len |-> len]

\* []llm.Message{}: a header of length 0 over an array of capacity 0
EmptySlice(arr) == Slice(arr, 0, 0)

Cap(h, sl) == Len(h[sl.arr]) - sl.off

\* the elements a header shows
Contents(h, sl) == SubSeq(h[sl.arr], sl.off + 1, sl.off + sl.len)

\* append(sl, x): in place while the capacity lasts, else into a new array
\* of twice the capacity that holds a copy of the elements
AppendSlice(h, sl, x) ==
    IF sl.len < Cap(h, sl)
    THEN [heap |-> [h EXCEPT ![sl.arr][sl.off + sl.len + 1] = x],
          slice |-> Slice(sl.arr, sl.off, sl.len + 1)]
    ELSE LET newcap == IF Cap(h, sl) = 0 THEN 1 ELSE 2 * Cap(h, sl)
             array == Contents(h, sl) \o <<x>>
                      \o [i \in 1..(newcap - sl.len - 1) |-> ZeroTurn]
         IN  [heap |-> Append(h, array),
              slice |-> Slice(Len(h) + 1, 0, sl.len + 1)]

\* p.history[len(p.history)-10:] when the slice is longer than 10
TruncateSlice(sl) ==
    IF sl.len > HistoryLimit
    THEN Slice(sl.arr, sl.off + (sl.len - HistoryLimit), HistoryLimit)
    ELSE sl

NoSnap == [taken |-> FALSE, slice |-> EmptySlice(1), was |-> <<>>, writes |-> 0]

InitHeap ==
    /\ heap = << <<>> >>
    /\ sess = EmptySlice(1)
    /\ snap = NoSnap

\* what nothing in this part touches
heapRest == <<provider, tools, lastQuery, lastResp, vendor, lastCmd,
              routerVars, pc, frame, memo, edgeVars>>

\* a successful ProcessQuery: the two appends and the truncation on the
\* slice; the caller may keep the header it was given in Query.History
SliceQuery ==
    /\ Len(heap) + 2 <= MaxArrays
    /\ Len(log) < 2 * MaxHeapCycles
    /\ \E text \in SliceTexts, keep \in BOOLEAN :
         LET a1 == AppendSlice(heap, sess, Turn("user", text))
             a2 == AppendSlice(a1.heap, a1.slice, Turn("assistant", Answer(text)))
         IN  /\ heap' = a2.heap
             /\ sess' = TruncateSlice(a2.slice)
             /\ history' = Contents(a2.heap, TruncateSlice(a2.slice))
             /\ log' = log \o << Turn("user", text),
                                 Turn("assistant", Answer(text)) >>
             /\ snap' = IF keep
                        THEN [taken |-> TRUE, slice |-> sess,
                              was |-> Contents(heap, sess), writes |-> snap.writes]
                        ELSE snap
    /\ UNCHANGED heapRest

\* GetHistory: return p.history
SliceGetHistory ==
    /\ snap' = [taken |-> TRUE, slice |-> sess,
                was |-> Contents(heap, sess), writes |-> snap.writes]
    /\ snap' # snap
    /\ UNCHANGED <<heap, sess, history, log, heapRest>>

\* ClearHistory: p.history = []llm.Message{}
SliceClear ==
    /\ Len(heap) < MaxArrays
    /\ sess.len > 0
    /\ heap' = Append(heap, <<>>)
    /\ sess' = EmptySlice(Len(heap) + 1)
    /\ history' = ClearHistory(history)
    /\ log' = <<>>
    /\ UNCHANGED <<snap, heapRest>>

\* the holder of a handed-out header assigns to one of its elements
SliceWrite ==
    /\ snap.taken
    /\ snap.writes < MaxWrites
    /\ \E i \in 1..snap.slice.len :
         LET h == [heap EXCEPT ![snap.slice.arr][snap.slice.off + i] =
                                   Turn("user", T("edited"))]
         IN  /\ heap' = h
             /\ history' = Contents(h, sess)
             /\ snap' = [snap EXCEPT !.writes = @ + 1,
                                     !.was = Contents(h, snap.slice)]
    /\ UNCHANGED <<sess, log, heapRest>>

-----------------------------------------------------------------------------
(* translating the same tool call again *)

NoMemo ==
    [set |-> FALSE, call |-> ToolCall(EmptyText, EmptyMap),
     res |-> [k |-> "none", v |-> EmptyText, err |-> EmptyText],
     tools |-> <<>>, changed |-> FALSE]

InitMemo == memo = NoMemo

\* the calls that are translated twice
MemoCalls ==
    { ToolCall(T("custom_tool"), EmptyMap),
      ToolCall(T("kubectl_get_pods"), MkObj([namespace |-> JStr(T("prod"))])),
      ToolCall(T("kubectl_scale_deployment"), ScaleArgs),
      ToolCall(T("kubectl_delete_pod"), EmptyMap) }

\* what translating leaves alone
memoRest == <<provider, tools, history, log, lastQuery, lastResp, vendor,
              routerVars, pc, frame, heap, sess, snap, edgeVars>>

\* a translation; memo keeps the first one and the tools of that time
TranslateMemo ==
    /\ Alive
    /\ \E tc \in MemoCalls :
         LET res == TranslateToolCallToCommand(tc)
         IN  /\ lastCmd' = [call |-> tc, res |-> res]
             /\ memo' = IF memo.set THEN memo
                        ELSE [set |-> TRUE, call |-> tc, res |-> res,
                              tools |-> tools, changed |-> FALSE]
    /\ UNCHANGED memoRest

\* the same call translated again
TranslateAgain ==
    /\ Alive
    /\ memo.set
    /\ lastCmd' = [call |-> memo.call,
                   res |-> TranslateToolCallToCommand(memo.call)]
    /\ memo' = [memo EXCEPT !.changed = (tools # memo.tools)]
    /\ UNCHANGED memoRest

(* examples/natural-language-demo.go: the demo's natural-language processor *)

\* a query is the sequence of its blank-separated words
MaxNLQueries == 2

\* strings.ToLower, on the words that carry an upper-case letter
Lowered ==
    [Scale |-> "scale", List |-> "list", Delete |-> "delete",
     Create |-> "create", Deployment |-> "deployment"]
ToLower(w) == IF w \in DOMAIN Lowered THEN Lowered[w] ELSE w

NLKeywords ==
    { "list", "pod", "service", "deployment", "create", "scale", "delete" }

\* the keywords that occur inside a word
Inside ==
    [pods |-> {"pod"}, services |-> {"service"},
     deployments |-> {"deployment"}, podlist |-> {"pod", "list"}]
Substrings(w) ==
    IF w \in DOMAIN Inside THEN Inside[w]
    ELSE IF w \in NLKeywords THEN {w} ELSE {}

\* strings.Contains(query, kw): no keyword holds a blank
Contains(parts, kw) == \E i \in DOMAIN parts : kw \in Substrings(parts[i])

\* for i, part := range parts { if part == word && i+1 < len(parts) {...} }
Hits(parts, word) == { i \in DOMAIN parts : parts[i] = word /\ i < Len(parts) }
FirstHit(parts, word) ==
    CHOOSE i \in Hits(parts, word) : \A j \in Hits(parts, word) : i <= j

ScaleCommand(name, replicas) ==
    T("kubectl scale deployment ") \o T(name) \o T(" --replicas=") \o T(replicas)
CreateCommand(name, image) ==
    T("kubectl create deployment ") \o T(name) \o T(" --image=") \o T(image)
DeletePodCommand(name) == T("kubectl delete pod ") \o T(name)

\* NaturalLanguageProcessor.ProcessQuery
DemoProcessQuery(words) ==
    LET parts == [i \in DOMAIN words |-> ToLower(words[i])]
        i == FirstHit(parts, "deployment")
        k == FirstHit(parts, "pod")
    IN  IF Contains(parts, "list") /\ Contains(parts, "pod")
          THEN T("kubectl get pods --all-namespaces")
        ELSE IF Contains(parts, "list") /\ Contains(parts, "service")
          THEN T("kubectl get services --all-namespaces")
        ELSE IF Contains(parts, "list") /\ Contains(parts, "deployment")
          THEN T("kubectl get deployments --all-namespaces")
        ELSE IF Contains(parts, "create") /\ Contains(parts, "deployment")
          THEN IF Hits(parts, "deployment") = {}
                 THEN T("kubectl create deployment <name> --image=<image>")
               ELSE CreateCommand(parts[i + 1],
                        IF i + 2 <= Len(parts) THEN parts[i + 2]
                        ELSE "nginx:latest")
        ELSE IF Contains(parts, "scale") /\ Contains(parts, "deployment")
          THEN IF Hits(parts, "deployment") = {}
                 THEN T("kubectl scale deployment <name> --replicas=<number>")
               ELSE ScaleCommand(parts[i + 1],
                        IF i + 2 <= Len(parts) THEN parts[i + 2] ELSE "3")
        ELSE IF Contains(parts, "delete") /\ Contains(parts, "pod")
          THEN IF Hits(parts, "pod") = {}
                 THEN T("kubectl delete pod <name>")
               ELSE DeletePodCommand(parts[k + 1])
        ELSE T("Unknown command. Try: list pods, create deployment, scale deployment, delete pod")

NLNames == { "myapp", "web", "api", "cache", "podlist" }
NLCounts == { "0", "1", "3", "5", "10" }

\* the forms a scale query is written in
ScaleWords(form, name, n) ==
    CASE form = "documented" -> <<"Scale", "deployment", name, "to", n, "replicas">>
      [] form = "short"      -> <<"scale", "deployment", name, n>>
      [] form = "article"    -> <<"Scale", "the", name, "deployment", "to", n, "replicas">>
      [] form = "default"    -> <<"scale", "deployment", name>>
ScaleForms == { "documented", "short", "article", "default" }

OtherWords ==
    { <<"List", "all", "pods">>, <<"list", "services">>,
      <<"Create", "deployment", "myapp", "nginx:latest">>,
      <<"Delete", "pod", "web-abc123">>, <<"scale", "deployment">>,
      <<"hello">> }

NoNL == [form |-> "none", name |-> "", n |-> "", words |-> <<>>,
         cmd |-> EmptyText, asked |-> 0]

InitNL == nl = NoNL

\* what the demo leaves alone
nlRest == <<routerVars, procVars, pc, frame, heap, sess, snap, memo,
            wire, client, cli, attempt>>

\* processor.ProcessQuery(query) on a scale query
DemoScaleQuery ==
    /\ nl.asked < MaxNLQueries
    /\ \E form \in ScaleForms, name \in NLNames, n \in NLCounts :
         LET words == ScaleWords(form, name, n)
         IN  nl' = [form |-> form, name |-> name, n |-> n, words |-> words,
                    cmd |-> DemoProcessQuery(words), asked |-> nl.asked + 1]
    /\ UNCHANGED nlRest

\* processor.ProcessQuery(query) on any other query
DemoOtherQuery ==
    /\ nl.asked < MaxNLQueries
    /\ \E words \in OtherWords :
         nl' = [form |-> "other", name |-> "", n |-> "", words |-> words,
                cmd |-> DemoProcessQuery(words), asked |-> nl.asked + 1]
    /\ UNCHANGED nlRest

\* C24: a scale query in the documented form "Scale deployment <name> to <n>
\* replicas" yields the command that scales <name> to <n> replicas.
C24_DocumentedScaleQuery ==
    nl.form = "documented" => nl.cmd = ScaleCommand(nl.name, nl.n)

(* pkg/mcp: an envelope as bytes *)

\* a character encoding/json escapes for HTML, and the escape it writes
LT == "<"
U003C == "u003c"

\* the body of a JSON string literal, as json.Marshal writes a Go string
RECURSIVE Escape(_)
Escape(s) ==
    IF s = <<>> THEN <<>>
    ELSE IF Head(s) \in {QUOTE, BACKSLASH}
         THEN <<BACKSLASH, Head(s)>> \o Escape(Tail(s))
    ELSE IF Head(s) = LT THEN <<BACKSLASH, U003C>> \o Escape(Tail(s))
    ELSE <<Head(s)>> \o Escape(Tail(s))

\* the Go string the decoder builds from the body of a string literal
RECURSIVE Unescape(_)
Unescape(s) ==
    IF s = <<>> THEN <<>>
    ELSE IF Head(s) = BACKSLASH /\ Len(s) >= 2
         THEN <<(IF s[2] = U003C THEN LT ELSE s[2])>> \o Unescape(Drop(s, 2))
    ELSE <<Head(s)>> \o Unescape(Tail(s))

Quoted(s) == <<QUOTE>> \o Escape(s) \o <<QUOTE>>

\* a decoder that takes the body of a string literal as it stands
UnquotedVerbatim(raw) == SubSeq(raw, 2, Len(raw) - 1)

Unquoted(raw) == Unescape(SubSeq(raw, 2, Len(raw) - 1))

\* json.Marshal writes the keys of a map in sorted order
KeyOrder ==
    << "arguments", "image", "name", "namespace", "protocolVersion",
       "replicas", "uri" >>

\* json.Marshal of a payload value
RECURSIVE Marshal(_)
RECURSIVE MarshalMembers(_, _, _)
MarshalMembers(m, i, first) ==
    IF i > Len(KeyOrder) THEN <<>>
    ELSE IF KeyOrder[i] \notin DOMAIN m THEN MarshalMembers(m, i + 1, first)
    ELSE (IF first THEN <<>> ELSE <<",">>)
         \o Quoted(T(KeyOrder[i])) \o <<":">> \o Marshal(m[KeyOrder[i]])
         \o MarshalMembers(m, i + 1, FALSE)
Marshal(v) ==
    CASE v.k = "null" -> <<"null">>
      [] v.k = "str"  -> Quoted(v.s)
      [] v.k = "num"  -> <<ToString(v.n)>>
      [] v.k = "bool" -> IF v.n = 1 THEN <<"true">> ELSE <<"false">>
      [] v.k = "obj"  -> <<"{">> \o MarshalMembers(v.m, 1, TRUE) \o <<"}">>

\* Message.Data: a nil json.RawMessage, or the bytes of one
RawNil == [k |-> "nil", text |-> EmptyText]
Raw(t) == [k |-> "raw", text |-> t]

\* an empty non-nil json.RawMessage handed to NewMessage as its data
EmptyRawMessage == [k |-> "emptyraw", s |-> EmptyText, n |-> 0, m |-> EmptyMap]

\* time.Now(): the wall clock reading and the monotonic one
Now == [wall |-> T("2026-01-01T00:00:00.5Z"), mono |-> 1]

\* NewMessage with the payload as bytes: nil data stays nil, anything else
\* is marshalled, and an empty RawMessage does not marshal
NewMessageBytes(msgType, id, data) ==
    IF data.k = "emptyraw"
    THEN Err(T("failed to marshal message data: unexpected end of JSON input"))
    ELSE Ok([Type |-> msgType, ID |-> id, Timestamp |-> Now,
             Data |-> IF data.k = "nil" THEN RawNil ELSE Raw(Marshal(data))])

\* json.Marshal(msg): the members of the object, by the struct's tags
EncodeMessage(m) ==
    <<[key |-> "type", raw |-> Quoted(m.Type)]>>
    \o (IF m.ID = EmptyText THEN <<>>
        ELSE <<[key |-> "id", raw |-> Quoted(m.ID)]>>)
    \o <<[key |-> "timestamp", raw |-> Quoted(m.Timestamp.wall)]>>
    \o (IF Len(m.Data.text) = 0 THEN <<>>
        ELSE <<[key |-> "data", raw |-> m.Data.text]>>)

HasMember(doc, key) == \E i \in DOMAIN doc : doc[i].key = key
Member(doc, key) == doc[CHOOSE i \in DOMAIN doc : doc[i].key = key].raw

\* json.Unmarshal(body, &msg): a member that is absent leaves its field zero
DecodeMessage(doc) ==
    [Type |-> IF HasMember(doc, "type")
              THEN Unquoted(Member(doc, "type")) ELSE EmptyText,
     ID |-> IF HasMember(doc, "id")
            THEN Unquoted(Member(doc, "id")) ELSE EmptyText,
     Timestamp |-> [wall |-> IF HasMember(doc, "timestamp")
                             THEN Unquoted(Member(doc, "timestamp"))
                             ELSE EmptyText,
                    mono |-> 0],
     Data |-> IF HasMember(doc, "data")
              THEN Raw(Member(doc, "data")) ELSE RawNil]

WireIDs ==
    { EmptyText, T("1"), T("req-") \o <<QUOTE>> \o T("a") \o <<QUOTE>>,
      <<BACKSLASH>> \o T("n"), <<LT>> \o T("id"), <<BACKSLASH, U003C>> }

WirePayloads ==
    { NilData, JNull, EmptyRawMessage, JStr(T("say ") \o <<QUOTE>>), JNum(3),
      JObj(MkObj([uri |-> JStr(T("kubernetes://pods"))])),
      JObj(MkObj([name |-> JStr(T("scale_deployment")),
                  arguments |-> JObj(MkObj([name |-> JStr(T("web")),
                                            replicas |-> JNum(5)]))])) }

NoWire == [sent |-> FALSE, msg |-> Err(EmptyText), doc |-> <<>>,
           back |-> DecodeMessage(<<>>)]

InitWire == wire = NoWire

\* what an envelope on the wire leaves alone
wireRest == <<routerVars, procVars, pc, frame, heap, sess, snap, memo,
              nl, client, cli, attempt>>

\* msg, err := mcp.NewMessage(...); body, _ := json.Marshal(msg);
\* json.Unmarshal(body, &back)
RoundTrip ==
    /\ \E type \in MessageTypes, id \in WireIDs, data \in WirePayloads :
         LET msg == NewMessageBytes(type, id, data)
             doc == IF msg.k = "ok" THEN EncodeMessage(msg.v) ELSE <<>>
         IN  wire' = [sent |-> msg.k = "ok", msg |-> msg, doc |-> doc,
                      back |-> DecodeMessage(doc)]
    /\ UNCHANGED wireRest

\* C23: an envelope built by NewMessage, encoded and decoded, comes back
\* equal in type, id and payload.
C23_RoundTrip ==
    wire.sent =>
        /\ wire.back.Type = wire.msg.v.Type
        /\ wire.back.ID = wire.msg.v.ID
        /\ wire.back.Data = wire.msg.v.Data

\* an envelope whose id and payload both need escaping has made the trip
C23_Witness ==
    /\ wire.sent
    /\ \E i \in DOMAIN wire.msg.v.ID : wire.msg.v.ID[i] = QUOTE
    /\ wire.msg.v.Data.k = "raw"
    /\ wire.back.Timestamp # wire.msg.v.Timestamp

\* the same holds for the envelope with no id and no payload
C23_EmptyEnvelope ==
    (wire.sent /\ wire.msg.v.ID = EmptyText /\ wire.msg.v.Data = RawNil) =>
        /\ ~HasMember(wire.doc, "id") /\ ~HasMember(wire.doc, "data")
        /\ wire.back.ID = EmptyText /\ wire.back.Data = RawNil

(* unnamed/part_001: the MCP client *)

MaxClientOps == 2

\* the inputSchema handleListTools advertises for each tool of the server
InputSchema(tool) ==
    IF tool = T("get_pods")
    THEN [properties |-> [namespace |-> "string"], required |-> {}]
    ELSE IF tool = T("create_deployment")
    THEN [properties |-> [name |-> "string", namespace |-> "string",
                          image |-> "string", replicas |-> "integer"],
          required |-> {"name", "namespace", "image"}]
    ELSE IF tool = T("scale_deployment")
    THEN [properties |-> [name |-> "string", namespace |-> "string",
                          replicas |-> "integer"],
          required |-> {"name", "namespace", "replicas"}]
    ELSE [properties |-> [name |-> "string", namespace |-> "string"],
          required |-> {"name", "namespace"}]

\* whether a decoded argument has the type a schema declares
HasType(v, type) ==
    IF type = "string" THEN v.k = "str" ELSE v.k = "num"

\* whether decoded arguments conform to a schema
Conforms(args, schema) ==
    /\ schema.required \subseteq DOMAIN args
    /\ \A key \in DOMAIN args \cap DOMAIN schema.properties :
         HasType(args[key], schema.properties[key])

\* c.client.Post(c.serverURL+"/mcp", ...): what the server does with the
\* message and what comes back
Post(msg, be1, be2) == handleMCP(Request("POST", TRUE, msg), be1, be2)

\* results of sendMessage: (*mcp.Message, error)
Sent(h) == [k |-> "ok", env |-> h.resp.env, err |-> EmptyText, http |-> h]
SendFailed(h, e) == [k |-> "err", env |-> NoMsg, err |-> e, http |-> h]

\* MCPClient.sendMessage, given what the POST brought: a dropped connection
\* fails the POST, a body that is no JSON fails the decoding, and any
\* envelope is returned whatever its type and the status line
sendMessage(h) ==
    IF h.resp.kind = "aborted" THEN SendFailed(h, T("EOF"))
    ELSE IF h.resp.kind # "envelope"
    THEN SendFailed(h, T("unexpected end of JSON input"))
    ELSE Sent(h)

Op(op, name, arg) == [op |-> op, name |-> name, arg |-> arg]
NoOp == Op("none", "", "")

ListOps == { "ListPods", "ListServices", "ListDeployments" }

\* the tool call each tool operation builds
ClientToolCall(o) ==
    IF o.op = "CreateDeployment"
    THEN CallData(JStr(T("create_deployment")),
                  JObj(MkObj([name |-> JStr(T(o.name)),
                              namespace |-> JStr(T("default")),
                              image |-> JStr(T(o.arg)),
                              replicas |-> JNum(1)])))
    ELSE IF o.op = "ScaleDeployment"
    THEN CallData(JStr(T("scale_deployment")),
                  JObj(MkObj([name |-> JStr(T(o.name)),
                              namespace |-> JStr(T("default")),
                              replicas |-> JStr(T(o.arg))])))
    ELSE CallData(JStr(T("delete_pod")),
                  JObj(MkObj([name |-> JStr(T(o.name)),
                              namespace |-> JStr(T("default"))])))

\* the messages an operation sends, in order
ClientMessages(o) ==
    CASE o.op = "Initialize" ->
           << Message(MessageTypeInitialize, T("init-1"),
                      InitData(JStr(ProtocolVersion))) >>
      [] o.op = "ListPods" ->
           << Message(MessageTypeListResources, T("list-resources-1"), NilData),
              Message(MessageTypeReadResource, T("read-pods-1"),
                      ReadData(JStr(T("kubernetes://pods")))) >>
      [] o.op = "ListServices" ->
           << Message(MessageTypeReadResource, T("read-services-1"),
                      ReadData(JStr(T("kubernetes://services")))) >>
      [] o.op = "ListDeployments" ->
           << Message(MessageTypeReadResource, T("read-deployments-1"),
                      ReadData(JStr(T("kubernetes://deployments")))) >>
      [] o.op = "CreateDeployment" ->
           << Message(MessageTypeListTools, T("list-tools-1"), NilData),
              Message(MessageTypeCallTool, T("call-tool-1"), ClientToolCall(o)) >>
      [] o.op \in { "ScaleDeployment", "DeletePod" } ->
           << Message(MessageTypeCallTool, T("call-tool-1"), ClientToolCall(o)) >>

\* readResp.UnmarshalData(&resource), then json.Unmarshal(resource.Content,
\* &data): a payload without "content" leaves Content empty, which is no JSON
DecodeResource(env) ==
    IF env.Data.k = "resource" THEN "nil" ELSE "err"

\* callResp.UnmarshalData(&result): members that ToolResult does not name are
\* skipped, and nil data leaves the result empty
DecodeToolResult(env) == "nil"

\* what an operation returns, given what sendMessage brought for each of
\* its messages: a failed send ends the operation, the answer to a first
\* message of two is dropped unread, and the answer to the last one is
\* decoded without a look at its type
ClientReturn(o, msgs, got) ==
    IF Len(msgs) = 2 /\ got[1].k = "err"
    THEN [sent |-> <<msgs[1]>>, got |-> <<got[1]>>, ret |-> "err"]
    ELSE [sent |-> msgs, got |-> got,
          ret |-> IF got[Len(got)].k = "err" THEN "err"
                  ELSE IF o.op = "Initialize" THEN "nil"
                  ELSE IF o.op \in ListOps THEN DecodeResource(got[Len(got)].env)
                  ELSE DecodeToolResult(got[Len(got)].env)]

\* MCPClient.NaturalLanguageQuery: the operation a query is turned into
NaturalLanguageQuery(words) ==
    LET parts == [i \in DOMAIN words |-> ToLower(words[i])]
        i == FirstHit(parts, "deployment")
        k == FirstHit(parts, "pod")
    IN  IF Contains(parts, "pod") /\ Contains(parts, "list")
          THEN Op("ListPods", "", "")
        ELSE IF Contains(parts, "service") /\ Contains(parts, "list")
          THEN Op("ListServices", "", "")
        ELSE IF Contains(parts, "deployment") /\ Contains(parts, "list")
          THEN Op("ListDeployments", "", "")
        ELSE IF Contains(parts, "create") /\ Contains(parts, "deployment")
          THEN IF Hits(parts, "deployment") = {} THEN NoOp
               ELSE Op("CreateDeployment", parts[i + 1],
                       IF i + 2 <= Len(parts) THEN parts[i + 2]
                       ELSE "nginx:latest")
        ELSE IF Contains(parts, "scale") /\ Contains(parts, "deployment")
          THEN IF Hits(parts, "deployment") = {} THEN NoOp
               ELSE Op("ScaleDeployment", parts[i + 1],
                       IF i + 2 <= Len(parts) THEN parts[i + 2] ELSE "3")
        ELSE IF Contains(parts, "delete") /\ Contains(parts, "pod")
          THEN IF Hits(parts, "pod") = {} THEN NoOp
               ELSE Op("DeletePod", parts[k + 1], "")
        ELSE NoOp

ClientNames == { "myapp", "web", "api" }
ClientImages == { "nginx:latest", "redis" }
ClientReplicas == { "0", "5", "to" }

\* the operations main and NaturalLanguageQuery call
ClientOps ==
    { Op(op, "", "") : op \in { "Initialize" } \cup ListOps }
    \cup { Op("CreateDeployment", nm, im) : nm \in ClientNames, im \in ClientImages }
    \cup { Op("ScaleDeployment", nm, r) : nm \in ClientNames, r \in ClientReplicas }
    \cup { Op("DeletePod", nm, "") : nm \in ClientNames }

ClientQueries ==
    { ScaleWords(f, "myapp", "5") : f \in ScaleForms } \cup OtherWords

NoClient == [o |-> NoOp, words |-> <<>>, sent |-> <<>>, got |-> <<>>,
             ret |-> "none", ops |-> 0]

InitClient == client = NoClient

\* what the client leaves alone
clientRest == <<routerVars, procVars, pc, frame, heap, sess, snap, memo,
                nl, wire, cli, attempt>>

\* one operation run to its return; the clientset outcomes meet the last
\* message, the only one that reaches the cluster
ClientStep(o, words) ==
    \E be1 \in BackendOutcomes, be2 \in { BOk, BErr(T("connection refused")) } :
      \E msgs \in { ClientMessages(o) } :
        \E https \in { [i \in DOMAIN msgs |->
                          Post(msgs[i], IF i = Len(msgs) THEN be1 ELSE BOk,
                                        IF i = Len(msgs) THEN be2 ELSE BOk)] } :
          \E run \in { ClientReturn(o, msgs,
                           [i \in DOMAIN msgs |-> sendMessage(https[i])]) } :
            client' = [o |-> o, words |-> words, sent |-> run.sent,
                       got |-> run.got, ret |-> run.ret,
                       ops |-> client.ops + 1]

\* one operation called directly
ClientCall ==
    /\ client.ops < MaxClientOps
    /\ \E o \in ClientOps : ClientStep(o, <<>>)
    /\ UNCHANGED clientRest

\* client.NaturalLanguageQuery(query)
ClientNaturalLanguageQuery ==
    /\ client.ops < MaxClientOps
    /\ \E words \in ClientQueries :
         \E o \in { NaturalLanguageQuery(words) } :
           IF o = NoOp
           THEN client' = [o |-> o, words |-> words, sent |-> <<>>,
                           got |-> <<>>, ret |-> "nil",
                           ops |-> client.ops + 1]
           ELSE ClientStep(o, words)
    /\ UNCHANGED clientRest

\* C28: when the server answers a request of a client operation with an
\* error-typed envelope, the operation returns an error.
C28_ErrorEnvelopeIsAnError ==
    (\E i \in DOMAIN client.got :
        client.got[i].k = "ok" /\ client.got[i].env.Type = MessageTypeError)
    => client.ret = "err"

\* C29: every callTool request the client sends conforms to the schema the
\* server advertises for the tool, and the tool handler accepts it.
C29_ClientCallsConform ==
    \A i \in DOMAIN client.sent :
        client.sent[i].Type = MessageTypeCallTool =>
            /\ Conforms(client.sent[i].Data.m["arguments"].m,
                        InputSchema(client.sent[i].Data.m["name"].s))
            /\ client.got[i].http.outcome.k # "panic"

(* internal/cli/app.go and internal/commands: the CLI application *)

MaxCliRuns == 2

ServerNames == { "aws-s3", "local", "staging" }

\* a *config.Config: the keys of its Servers map
Config(servers) == [Servers |-> servers]

\* config.DefaultConfig(): Servers is an empty map
DefaultConfig == Config({})

\* the configuration file viper finds: none, one it cannot read, or one
\* that lists servers
NoFile == [k |-> "absent", servers |-> {}]
BadFile == [k |-> "unreadable", servers |-> {}]
File(servers) == [k |-> "ok", servers |-> servers]
ConfigFiles ==
    { NoFile, BadFile, File({}), File({"aws-s3"}), File({"aws-s3", "local"}) }

\* results of a subcommand: what it returned and the servers it showed
CmdOk(seen) == [k |-> "ok", seen |-> seen]
CmdErr == [k |-> "err", seen |-> {}]
CmdNone == [k |-> "none", seen |-> {}]

\* listServers(cfg): the names of the rows it prints
listServers(cfg) == CmdOk(cfg.Servers)

\* showServer, connectToServer and checkServerHealth: cfg.Servers[name]
lookupServer(cfg, name) ==
    IF name \in cfg.Servers THEN CmdOk({name}) ELSE CmdErr

\* addServer(cfg, name, ...): the result and the configuration afterwards
addServer(cfg, name) ==
    IF name \in cfg.Servers THEN [res |-> CmdErr, cfg |-> cfg]
    ELSE [res |-> CmdOk({name}), cfg |-> Config(cfg.Servers \cup {name})]

\* removeServer(cfg, name)
removeServer(cfg, name) ==
    IF name \notin cfg.Servers THEN [res |-> CmdErr, cfg |-> cfg]
    ELSE [res |-> CmdOk({name}), cfg |-> Config(cfg.Servers \ {name})]

\* objs holds the Config objects allocated; app is App.config and cmds the
\* pointer the subcommands were built with (0 is nil)
NoCli == [pc |-> "start", file |-> NoFile, objs |-> <<>>, app |-> 0,
          cmds |-> 0, sub |-> "none", arg |-> "", out |-> CmdNone, runs |-> 0]

InitCli == cli = NoCli

\* what the CLI leaves alone
cliRest == <<routerVars, procVars, pc, frame, heap, sess, snap, memo,
             nl, wire, client, attempt>>

\* cli.NewApp: setupCommands finds a.config nil, installs the default
\* configuration and hands that pointer to every subcommand
NewApp ==
    /\ cli.pc = "start"
    /\ cli.runs < MaxCliRuns
    /\ \E f \in ConfigFiles :
         cli' = [NoCli EXCEPT !.pc = "built", !.file = f,
                              !.objs = <<DefaultConfig>>, !.app = 1,
                              !.cmds = 1, !.runs = cli.runs + 1]
    /\ UNCHANGED cliRest

\* App.loadConfig, the PersistentPreRunE of the root command: a file that
\* cannot be read ends the run; otherwise a.config = &config.Config{} and
\* viper.Unmarshal(a.config)
loadConfig ==
    /\ cli.pc = "built"
    /\ IF cli.file.k = "unreadable"
       THEN cli' = [cli EXCEPT !.pc = "done", !.out = CmdErr]
       ELSE cli' = [cli EXCEPT !.pc = "loaded",
                               !.objs = Append(cli.objs, Config(cli.file.servers)),
                               !.app = Len(cli.objs) + 1]
    /\ UNCHANGED cliRest

\* mcp-cli servers list
ServersList ==
    /\ cli.pc = "loaded"
    /\ cli' = [cli EXCEPT !.pc = "done", !.sub = "servers list",
                          !.out = listServers(cli.objs[cli.cmds])]
    /\ UNCHANGED cliRest

\* mcp-cli servers show, connect and health check
ServerLookup ==
    /\ cli.pc = "loaded"
    /\ \E sub \in { "servers show", "connect", "health check" },
          name \in ServerNames :
         cli' = [cli EXCEPT !.pc = "done", !.sub = sub, !.arg = name,
                            !.out = lookupServer(cli.objs[cli.cmds], name)]
    /\ UNCHANGED cliRest

\* mcp-cli servers add
ServersAdd ==
    /\ cli.pc = "loaded"
    /\ \E name \in ServerNames :
         LET r == addServer(cli.objs[cli.cmds], name)
         IN  cli' = [cli EXCEPT !.pc = "done", !.sub = "servers add",
                                !.arg = name, !.out = r.res,
                                !.objs[cli.cmds] = r.cfg]
    /\ UNCHANGED cliRest

\* mcp-cli servers remove
ServersRemove ==
    /\ cli.pc = "loaded"
    /\ \E name \in ServerNames :
         LET r == removeServer(cli.objs[cli.cmds], name)
         IN  cli' = [cli EXCEPT !.pc = "done", !.sub = "servers remove",
                                !.arg = name, !.out = r.res,
                                !.objs[cli.cmds] = r.cfg]
    /\ UNCHANGED cliRest

\* the process ends; nothing it held survives
Exit ==
    /\ cli.pc = "done"
    /\ cli.runs < MaxCliRuns
    /\ cli' = [NoCli EXCEPT !.runs = cli.runs]
    /\ UNCHANGED cliRest

\* C30: once loadConfig has run, the configuration object the subcommands
\* hold is the one the application holds, so the servers they read and
\* modify are those of the loaded configuration.
C30_CommandsUseLoadedConfig ==
    cli.pc \in { "loaded", "done" } /\ cli.app # 0 /\ cli.sub # "none" =>
        /\ cli.cmds = cli.app
        /\ (cli.sub = "servers list" =>
              cli.out.seen = cli.objs[cli.app].Servers)

(* pkg/llm: one provider call against the clock; a tick is ten seconds *)

MaxTicks == 5
MaxCalls == 2

\* http.Client{Timeout: 30 * time.Second} of NewOpenRouterProvider, in ticks
OpenRouterTimeout == 3

\* the deadline of the context a caller passes: none for the
\* context.Background() of cmd/ai-cli, or one set with context.WithTimeout
NoDeadline == 0
CallerDeadlines == { NoDeadline, 2 }

Earliest(a, b) ==
    IF a = NoDeadline THEN b
    ELSE IF b = NoDeadline THEN a
    ELSE IF a <= b THEN a ELSE b

\* when the vendor request of a call is given up: the OpenAI and Gemini
\* clients are built without a timeout and obey the context alone, the
\* OpenRouter client also has its own
CallDeadline(pv, ctx) ==
    IF pv = "openrouter" THEN Earliest(OpenRouterTimeout, ctx) ELSE ctx

NoAttempt == [provider |-> "none", state |-> "idle", deadline |-> NoDeadline,
              elapsed |-> 0, beat |-> FALSE, requests |-> 0,
              result |-> "none", calls |-> 0]

InitAttempt == attempt = NoAttempt

\* what a provider call against the clock leaves alone
attemptRest == <<routerVars, procVars, pc, frame, heap, sess, snap, memo,
                 nl, wire, client, cli>>

\* GenerateResponse / GenerateResponseWithTools sends its one vendor request
StartCall ==
    /\ attempt.state \in { "idle", "done" }
    /\ attempt.calls < MaxCalls
    /\ \E pv \in Providers, ctx \in CallerDeadlines :
         attempt' = [provider |-> pv, state |-> "waiting",
                     deadline |-> CallDeadline(pv, ctx), elapsed |-> 0,
                     beat |-> FALSE, requests |-> 1, result |-> "none",
                     calls |-> attempt.calls + 1]
    /\ UNCHANGED attemptRest

\* ten seconds pass without an answer; past MaxTicks the count stays and
\* only the beat of the clock shows that time goes on
Tick ==
    /\ attempt.state = "waiting"
    /\ attempt.deadline = NoDeadline \/ attempt.elapsed < attempt.deadline
    /\ attempt' = IF attempt.elapsed < MaxTicks
                  THEN [attempt EXCEPT !.elapsed = attempt.elapsed + 1]
                  ELSE [attempt EXCEPT !.beat = ~attempt.beat]
    /\ UNCHANGED attemptRest

\* the vendor answers, with a completion or with an error; the call returns
VendorAnswers ==
    /\ attempt.state = "waiting"
    /\ attempt.deadline = NoDeadline \/ attempt.elapsed < attempt.deadline
    /\ \E r \in { "ok", "err" } :
         attempt' = [attempt EXCEPT !.state = "done", !.result = r]
    /\ UNCHANGED attemptRest

\* the deadline passes: the HTTP client gives the request up and the call
\* returns the wrapped error
DeadlineExpires ==
    /\ attempt.state = "waiting"
    /\ attempt.deadline # NoDeadline
    /\ attempt.elapsed >= attempt.deadline
    /\ attempt' = [attempt EXCEPT !.state = "done", !.result = "err"]
    /\ UNCHANGED attemptRest

\* C21: every provider call resolves: when the vendor stays silent the call
\* ends with an error once the timeout has passed, and the call issues one
\* vendor request and no more.
C21_CallResolves ==
    (attempt.state = "waiting") ~>
        (attempt.state = "done" /\ attempt.requests = 1)

\* the part of C21 that a finite run shows: one vendor request per call
C21_OneRequestPerCall ==
    attempt.state # "idle" => attempt.requests = 1

InitEdge == InitNL /\ InitWire /\ InitClient /\ InitCli /\ InitAttempt

InitAux == InitGoroutines /\ InitHeap /\ InitMemo /\ InitEdge

-----------------------------------------------------------------------------
(* specifications *)

\* the router serving requests
Init == InitRouter /\ InitProcessor /\ InitAux /\ provider = "openai"
Next == ServeHTTP
Spec == Init /\ [][Next]_vars

\* the conversation session of one processor
InitSession == InitRouter /\ InitProcessor /\ InitAux
NextSession == SessionQuery \/ Clear
SpecSession == InitSession /\ [][NextSession]_vars

\* the tool registry of one processor, as queries advertise it
NextRegistry == Register \/ RegistryQuery
SpecRegistry == InitSession /\ [][NextRegistry]_vars

\* the translator applied to tool calls, next to a changing registry
NextTranslate == Translate \/ Register
SpecTranslate == InitSession /\ [][NextTranslate]_vars

\* the two capabilities of the provider of one processor
NextProviders == Generate \/ RegistryQuery
SpecProviders == InitSession /\ [][NextProviders]_vars

\* a tool call translated again after other translations and registrations
NextDeterminism == TranslateMemo \/ TranslateAgain \/ Register
SpecDeterminism == InitSession /\ [][NextDeterminism]_vars

\* two goroutines sharing one processor
NextGoroutines ==
    \E g \in Goroutines :
        \/ GoBuildQuery(g) \/ GoGenerate(g) \/ GoReadHistory(g)
        \/ GoAppendUser(g) \/ GoAppendAssistant(g) \/ GoTruncate(g)
        \/ GoClearHistory(g)
SpecGoroutines == Init /\ [][NextGoroutines]_vars

\* the history slice and the headers handed out
NextSlices == SliceQuery \/ SliceGetHistory \/ SliceClear \/ SliceWrite
SpecSlices == Init /\ [][NextSlices]_vars

\* the demo's natural-language processor applied to queries
NextDemo == DemoScaleQuery \/ DemoOtherQuery
SpecDemo == Init /\ [][NextDemo]_vars

\* envelopes built, encoded and decoded
NextWire == RoundTrip
SpecWire == Init /\ [][NextWire]_vars

\* the MCP client running its operations against the server
NextClient == ClientCall \/ ClientNaturalLanguageQuery
SpecClient == Init /\ [][NextClient]_vars

\* runs of the CLI: construction, loading, one subcommand
NextCli ==
    \/ NewApp \/ loadConfig \/ ServersList \/ ServerLookup
    \/ ServersAdd \/ ServersRemove \/ Exit
SpecCli == Init /\ [][NextCli]_vars

\* provider calls against the clock: time passes and timers fire, while the
\* vendor is free never to answer
NextCalls == StartCall \/ Tick \/ VendorAnswers \/ DeadlineExpires
SpecCalls ==
    Init /\ [][NextCalls]_vars /\ WF_vars(Tick) /\ WF_vars(DeadlineExpires)

-----------------------------------------------------------------------------
(* properties of the router *)

\* req is an envelope that reached handleMessage
Handed(r) == r.Method = "POST" /\ r.decodable

IsErrorEnvelope(rsp) ==
    rsp.kind = "envelope" /\ rsp.env.Type = MessageTypeError

\* C1: handling any request envelope handed to the router completes: the
\* handler comes back with a typed result or with an error for the error
\* envelope, whatever the payload, and never panics, so the client is never
\* left without a response.
C1_HandlingCompletes ==
    Handed(req) =>
        /\ outcome.k \in {"ok", "err"}
        /\ resp.kind # "aborted"

\* C2: every response envelope the router produces carries the id of the
\* request it answers, and its type is one of the closed enumeration.
C2_ResponseIdAndType ==
    resp.kind = "envelope" =>
        /\ resp.env.ID = req.msg.ID
        /\ resp.env.Type \in MessageTypes

\* an error path has answered a request with a non-empty id
C2_Witness ==
    /\ IsErrorEnvelope(resp)
    /\ req.msg.ID = T("req-1")
    /\ req.msg.Type = MessageTypeCallTool
    /\ outcome.k = "err"

GatedTypes ==
    { MessageTypeListResources, MessageTypeReadResource, MessageTypeListTools,
      MessageTypeCallTool }

\* C3: on an Uninitialized connection a listResources, readResource,
\* listTools or callTool envelope yields an error and no handler or backend
\* operation runs.
C3_GatedUntilInitialized ==
    [][ (connState = "Uninitialized" /\ Handed(req') /\ req'.msg.Type \in GatedTypes)
        => (IsErrorEnvelope(resp') /\ handler' = "none" /\ calls' = <<>>) ]_vars

\* an initialize request that states a protocol version other than the
\* router's
IsVersionMismatch(r) ==
    /\ Handed(r)
    /\ r.msg.Type = MessageTypeInitialize
    /\ r.msg.Data.k = "obj"
    /\ "protocolVersion" \in DOMAIN r.msg.Data.m
    /\ r.msg.Data.m["protocolVersion"].k = "str"
    /\ r.msg.Data.m["protocolVersion"].s # ProtocolVersion

\* C4: an initialize request whose protocolVersion differs from the
\* router's is answered with an error, not with an initialization response,
\* and leaves an Uninitialized connection Uninitialized.
C4_VersionMismatch ==
    [][ IsVersionMismatch(req')
        => (IsErrorEnvelope(resp') /\ connState' = connState) ]_vars

\* C5: a ping envelope is answered with a pong envelope carrying the same
\* id, in every connection state and whatever payload it carries.
C5_PingPong ==
    (Handed(req) /\ req.msg.Type = MessageTypePing) =>
        resp = HTTPResponse(200, "envelope",
                            Message(MessageTypePong, req.msg.ID, NoPayload))

\* a ping with a payload has been answered on a Ready connection
C5_Witness ==
    /\ Handed(req)
    /\ req.msg.Type = MessageTypePing
    /\ req.msg.Data.k = "obj"
    /\ connState = "Ready"
    /\ resp.kind = "envelope"
    /\ resp.env.Type = MessageTypePong

\* the error the router reports for a type it does not handle
UnsupportedType(type) == T("unknown message type: ") \o type

\* C6: an envelope whose type the router does not handle is answered with
\* an error envelope that reports the unsupported type and carries the
\* request id, and no handler runs.
C6_UnsupportedType ==
    (Handed(req) /\ Dispatch(req.msg.Type) = "none") =>
        /\ IsErrorEnvelope(resp)
        /\ resp.env.ID = req.msg.ID
        /\ resp.env.Data.text = ErrorData(UnsupportedType(req.msg.Type))
        /\ handler = "none"
        /\ calls = <<>>

\* C7: a non-success status is returned only for a wrong method or an
\* undecodable body, and every protocol-level failure is returned with
\* success status as an error envelope.
C7_StatusOnlyForTransport ==
    /\ resp.kind = "text" => ~Handed(req)
    /\ outcome.k = "err" => (resp.status = 200 /\ IsErrorEnvelope(resp))

\* the clientset calls that change the cluster
Mutations == { "Deployments.Create", "Deployments.UpdateScale", "Pods.Delete" }

MutationCount(cs) == Cardinality({ i \in DOMAIN cs : cs[i] \in Mutations })

C27_ErrorBodyDecodable ==
    outcome.k = "err" =>
        /\ resp.kind = "envelope"
        /\ resp.env.Type = MessageTypeError
        /\ resp.env.Data.k = "raw"
        /\ ValidRaw(resp.env.Data.text)

-----------------------------------------------------------------------------
(* properties of the registry and of the session *)

Names(tls) == { tls[i].Name : i \in DOMAIN tls }

\* the names a Query built now advertises: Query.Tools is p.tools
AdvertisedNames == Names(tools)

\* the names a provider adapter put in the tool calls of the last response
EmittedNames == { lastResp.ToolCalls[i].ToolName : i \in DOMAIN lastResp.ToolCalls }

\* the translator accepts a name when it does not answer "unknown tool"
Accepted(n) ==
    TranslateToolCallToCommand(ToolCall(n, ScaleArgs))
        # ErrS(T("unknown tool: ") \o n)

NameUniverse ==
    AdvertisedNames \cup EmittedNames \cup { tc.ToolName : tc \in ToolCalls }

\* C8: the tool names advertised in a Query and the tool names accepted
\* when a tool call is translated are the same set, and every name an
\* adapter emitted was advertised in the Query it answered.
C8_AdvertisedIsAccepted ==
    /\ AdvertisedNames = { n \in NameUniverse : Accepted(n) }
    /\ EmittedNames \subseteq Names(lastQuery.Tools)

\* C9: registering a name that already exists leaves the registry
\* unchanged, so tool names are pairwise distinct.
C9_NamesDistinct ==
    \A i, j \in DOMAIN tools : i # j => tools[i].Name # tools[j].Name

Min(a, b) == IF a < b THEN a ELSE b

\* the last n turns of a sequence of turns
LastTurns(h, n) == SubSeq(h, Len(h) - n + 1, Len(h))

\* successful query cycles since the history was last empty
Cycles == Len(log) \div 2

\* the history holds at most 2K turns and ends with the most recent
\* min(N, K) pairs, in the order they were appended
WindowHolds(K) ==
    /\ Len(history) <= 2 * K
    /\ Len(history) >= 2 * Min(Cycles, K)
    /\ LastTurns(history, 2 * Min(Cycles, K)) = LastTurns(log, 2 * Min(Cycles, K))

\* C10 as stated: with K = 10 the session never exceeds 20 turns and keeps
\* the most recent min(N, 10) pairs.
C10_WindowOfTenPairs == WindowHolds(10)

\* C10 as amended: the session never exceeds 10 turns (K = 5 pairs) and
\* keeps the most recent min(N, 5) pairs in their original order.
C10_WindowOfTenTurns == WindowHolds(HistoryLimit \div 2)

\* a sixth cycle has made the truncation drop the oldest pair
C10_Witness ==
    /\ Len(log) > HistoryLimit
    /\ Len(history) = HistoryLimit
    /\ history # LastTurns(log, Len(log))


\* C25: a query cycle whose provider call fails leaves the history as it
\* was: no turn is appended and nothing is truncated; a cycle appends only
\* when it succeeds, and then the user turn followed by the assistant turn.
\* (A step that leaves log as it was is not a clear of a non-empty history.)
C25_FailedCycleKeepsHistory ==
    [][ /\ (vendor'.call = "generateWithTools" /\ lastResp'.k = "err"
            /\ log' = log) => history' = history
        /\ (history' # history /\ history' # <<>>) =>
              /\ lastResp'.k = "ok"
              /\ history' = Truncate(history \o
                               << Turn("user", lastQuery'.Text),
                                  Turn("assistant", lastResp'.Content) >>) ]_vars

C25_Witness ==
    /\ lastResp.k = "err"
    /\ vendor.call = "generateWithTools"
    /\ lastQuery.History = history
    /\ Len(history) = 2

\* C26: with cycles and clears run one at a time, the history has even
\* length, alternates user, assistant from a user turn on, and is a run of
\* whole pairs as they were appended: truncation never splits a pair.
C26_PairsAlternate ==
    /\ Len(history) % 2 = 0
    /\ \A i \in DOMAIN history :
          history[i].Role = IF i % 2 = 1 THEN "user" ELSE "assistant"
    /\ Len(history) <= Len(log)
    /\ history = LastTurns(log, Len(history))

C26_Witness ==
    /\ Len(log) > HistoryLimit
    /\ Len(history) = HistoryLimit
    /\ history[1].Role = "user"
    /\ lastResp.k = "ok"

-----------------------------------------------------------------------------
(* properties of the shared session *)

\* no goroutine is between the first and the last of its history mutations
Quiescent == \A g \in Goroutines : pc[g] \in { "idle", "call" }

\* C11: the history mutations of concurrent ProcessQuery and ClearHistory
\* calls are mutually exclusive: whenever no call is in the middle of its
\* mutations, the history is the tail (at most 10 turns) of the pairs of the
\* calls finished since the last clear, each user turn directly followed by
\* the assistant turn of the same query, none lost or reordered.
C11_HistoryMutationsExclusive ==
    Quiescent => history = LastTurns(log, Min(Len(log), HistoryLimit))

\* a header handed out still shows what it showed when it was handed out
SnapshotKept == Contents(heap, snap.slice) = snap.was

\* C12: the history handed out (in a Query, by GetHistory) is an immutable
\* copy: no later append, truncation or clear of the session changes what
\* it shows, and assigning to it does not change the session's history.
C12_SnapshotIsCopy ==
    [][ /\ (snap.taken /\ snap' = snap) => SnapshotKept'
        /\ snap'.writes > snap.writes => history' = history ]_vars


-----------------------------------------------------------------------------
(* properties of the translator *)

\* the number of times a token occurs in a text
Count(text, token) == Cardinality({ i \in DOMAIN text : text[i] = token })

Translated == lastCmd.res.k # "none"

\* C13: a ToolCall whose name is not a registered tool is answered with the
\* unknown-tool error and an empty command, whatever its arguments.
C13_UnknownToolNoCommand ==
    (Translated /\ lastCmd.call.ToolName \notin Names(tools)) =>
        /\ lastCmd.res.k = "err"
        /\ lastCmd.res.err = T("unknown tool: ") \o lastCmd.call.ToolName
        /\ lastCmd.res.v = EmptyText

C13_Witness ==
    /\ lastCmd.call = ToolCall(T("kubectl"), ScaleArgs)
    /\ T("kubectl") \notin Names(tools)
    /\ lastCmd.res.k = "err"

\* the "required" list of each tool's parameter schema
RequiredParams(name) ==
    IF name = T("kubectl_create_deployment") THEN { "name", "image" }
    ELSE IF name = T("kubectl_scale_deployment") THEN { "name", "replicas" }
    ELSE IF name \in { T("kubectl_delete_pod"), T("kubectl_describe_pod") }
    THEN { "name" }
    ELSE {}

\* a value of the declared type, and one of another type, for a parameter
WellTyped(args, param) ==
    IF param = "replicas" THEN IsFloat(args, param) ELSE IsString(args, param)
WrongTyped(param) == IF param = "replicas" THEN JStr(T("5")) ELSE JNum(5)

\* args with one more member
WithArg(args, param, value) ==
    [x \in DOMAIN args \cup {param} |-> IF x = param THEN value ELSE args[x]]

\* C14: for a registered tool, a call that lacks one required parameter (the
\* others being supplied) fails without a command, and with an outcome other
\* than the one for that parameter supplied with a value of the wrong type.
C14_MissingArgumentDistinct ==
    \A p \in RequiredParams(lastCmd.call.ToolName) :
        ( /\ Translated
          /\ p \notin DOMAIN lastCmd.call.Arguments
          /\ \A o \in RequiredParams(lastCmd.call.ToolName) \ {p} :
                WellTyped(lastCmd.call.Arguments, o) ) =>
            /\ lastCmd.res.k = "err"
            /\ lastCmd.res.v = EmptyText
            /\ TranslateToolCallToCommand(
                   ToolCall(lastCmd.call.ToolName,
                            WithArg(lastCmd.call.Arguments, p, WrongTyped(p)))).err
                 # lastCmd.res.err

\* C15: a scale-deployment call with a negative replicas argument fails with
\* an error and no command; no command holds a negative replica count.
C15_NoNegativeReplicas ==
    ( /\ Translated
      /\ lastCmd.call.ToolName = T("kubectl_scale_deployment")
      /\ IsFloat(lastCmd.call.Arguments, "replicas")
      /\ lastCmd.call.Arguments["replicas"].n < 0 ) =>
        /\ lastCmd.res.k = "err"
        /\ lastCmd.res.v = EmptyText

\* args holds a non-empty string for param
NonEmptyString(args, param) == IsString(args, param) /\ args[param].s # EmptyText

\* C16: an optional parameter shows in the translated command only when it
\* is present and non-empty: the command holds the fragment " -n <namespace>"
\* once when namespace is a non-empty string and not at all otherwise, the
\* all-namespaces and replicas fragments only when their arguments are
\* given; scale deployment myapp to 5 replicas has no namespace fragment,
\* and with namespace "prod" exactly the one for prod.
C16_OptionalOnlyWhenPresent ==
    LET args == lastCmd.call.Arguments
        cmd == lastCmd.res.v
    IN  lastCmd.res.k = "ok" =>
          /\ Count(cmd, " -n ") = IF NonEmptyString(args, "namespace") THEN 1 ELSE 0
          /\ NonEmptyString(args, "namespace") =>
                \E i \in DOMAIN cmd :
                    /\ cmd[i] = " -n "
                    /\ SubSeq(cmd, i + 1, i + Len(args["namespace"].s))
                         = args["namespace"].s
          /\ Count(cmd, " --all-namespaces") > 0 => IsTrue(args, "all_namespaces")
          /\ Count(cmd, " --replicas=") > 0 => IsFloat(args, "replicas")
          /\ lastCmd.call = ToolCall(T("kubectl_scale_deployment"), ScaleArgs) =>
                cmd = <<"kubectl scale deployment ", "myapp", " --replicas=", "5">>
          /\ lastCmd.call = ToolCall(T("kubectl_scale_deployment"),
                                     WithArg(ScaleArgs, "namespace", JStr(T("prod")))) =>
                cmd = <<"kubectl scale deployment ", "myapp", " --replicas=", "5",
                        " -n ", "prod">>

C16_Witness ==
    /\ lastCmd.call = ToolCall(T("kubectl_scale_deployment"),
                               WithArg(ScaleArgs, "namespace", JStr(T("prod"))))
    /\ lastCmd.res.k = "ok"

-----------------------------------------------------------------------------
(* properties of the provider abstraction *)

\* C18: every provider NewProvider can construct has both capabilities, so
\* a query processed through any of them ends with a Response or an error
\* value, never with a crash for want of the tool-calling capability.
C18_NoCapabilityCrash == lastResp.k \in { "none", "ok", "err" }

\* the vendor was reached and answered with a well-formed body
Answered == vendor.call # "none" /\ vendor.reply.k = "ok"

\* C19: when the vendor returns zero candidates the provider call fails (no
\* Response, no tool call), for generate and generateWithTools of every
\* adapter, and the router returns an error envelope for it.
C19_ZeroCandidates ==
    (Answered /\ vendor.reply.choices = 0) =>
        /\ lastResp.k = "err"
        /\ lastResp.Content = EmptyText
        /\ lastResp.ToolCalls = <<>>
        /\ IsErrorEnvelope(resp)

\* C20: when the first candidate's text is empty or white space only, and
\* text was expected (the candidate carries no tool call), the provider call
\* fails, for every adapter: no Response is returned as a success.
C20_EmptyContentFails ==
    ( /\ Answered
      /\ vendor.reply.choices > 0
      /\ vendor.reply.toolCalls = <<>>
      /\ TrimSpace(vendor.reply.content) = EmptyText ) =>
        lastResp.k = "err"

=============================================================================
